---- MODULE Spec2Model ----
(***************************************************************************)
(* Matter API client (src/src/matter-api.ts, API v11 client, lines 547-759) *)
(* as a state machine.                                                     *)
(*                                                                         *)
(* One MatterClient instance holds the credential pair.  Each process of   *)
(* Procs runs one client operation at a time (getArticles, getArticle,     *)
(* saveArticle); an operation is a chain of request() calls, and a         *)
(* request() call is suspended exactly at its network calls.  The provider *)
(* is the environment: every response is a nondeterministic choice.        *)
(*                                                                         *)
(* Tokens are numbered by generation: the pair the client is constructed   *)
(* with is generation 0, and the k-th successful answer of the refresh     *)
(* endpoint carries the access token k and the refresh token k.            *)
(*                                                                         *)
(* Around the client: the tool handler of createMatterServer               *)
(* (src/src/server.ts), the MCP endpoint (src/api/mcp.ts), the             *)
(* authorization page with its QR polling (src/api/oauth/authorize.ts)     *)
(* and the authorization code on its way to the token endpoint             *)
(* (src/api/oauth/token.ts), each with a specification of its own.         *)
(***************************************************************************)
EXTENDS Integers, Sequences, FiniteSets, TLC

\* ------------------------------------------------------------------ bounds
MaxPages == 2
MaxPerPage == 2
MaxLimit == 3
MaxIssued == 2
MaxOps == 1
MaxCalls == 2
MaxTokenLen == 2
MaxRegs == 3
MaxFetches == 4
MaxPolls == 2
MaxRedeems == 3

\* ------------------------------------------------------- program constants
\* `next: string | null`: the absent cursor.
NoCursor == 0
\* "/library_items/queue_feed/", the URL of the first feed page.
QueueFeedUrl == 1
\* "/library_items/queue_entries/", the enqueue endpoint (no feed page).
SaveUrl == 0
\* `options?.limit || 100`
DefaultLimit == 100
\* `response.status === 401`
Unauthorized == 401

Procs == {1, 2}

VARIABLES
  cred,       \* per client: its accessToken / refreshToken fields
  issued,     \* number of pairs the refresh endpoint has issued so far
  hasObserver,\* whether an onTokenRefresh callback was given to the constructor
  notified,   \* the pairs handed to onTokenRefresh, in order
  feed,       \* the provider's feed: page URL -> FeedResponse
  call,       \* per process: the frame of the running client operation
  req,        \* per process: the frame of its current request() call
  opsDone,    \* per process: operations completed (bounded by MaxOps)
  tool,       \* per process: the frame of the running tool handler
  http,       \* per process: the request the MCP HTTP endpoint answers
  qr,         \* the authorization page: the QR login flow and its polling
  oauth,      \* the token envelope on its way from the page to the token endpoint
  reg,        \* the registration endpoint: the identifiers drawn, the answers given
  flows,      \* per authorization page of several: its QR login flow
  logins      \* the provider's QR login sessions, and the exchange calls it got

\* The state outside the tool server and its client.
web == <<http, qr, oauth, reg, flows, logins>>

vars == <<cred, issued, hasObserver, notified, feed, call, req, opsDone, tool,
          http, qr, oauth, reg, flows, logins>>

\* ------------------------------------------------------------------- data
\* FeedEntry: `title` stands for the fields that tell two entries apart,
\* `id` is entry.id, `cid` is entry.content.id (0: the optional field is absent).
\* Identifiers repeat: 1 is the id of entries 1 and 4 and the content id of
\* entry 2; 2 is the id of entries 2 and 5 and the content id of entry 4.
IdOf(k) == 1 + ((k - 1) % 3)
CidOf(k) == IF k % 2 = 1 THEN 0 ELSE k \div 2
Entry(k) == [title |-> k, id |-> IdOf(k), cid |-> CidOf(k)]
NoEntry == [title |-> 0, id |-> 0, cid |-> 0]

RECURSIVE SumTo(_, _)
SumTo(sizes, i) == IF i = 0 THEN 0 ELSE sizes[i] + SumTo(sizes, i - 1)

\* The feed whose i-th page holds sizes[i] entries, pages linked in order,
\* the last page without a cursor.
MkFeed(sizes) ==
  [i \in 1..Len(sizes) |->
     [feed |-> [j \in 1..sizes[i] |-> Entry(SumTo(sizes, i - 1) + j)],
      next |-> IF i < Len(sizes) THEN i + 1 ELSE NoCursor,
      id   |-> 0]]

Feeds == UNION {{MkFeed(s) : s \in [1..n -> 0..MaxPerPage]} : n \in 1..MaxPages}

\* The body of a successful answer of the enqueue endpoint (SaveArticleResponse).
SaveIds == {7, 8}
SaveBody(i) == [feed |-> <<>>, next |-> NoCursor, id |-> i]

\* Responses of the target endpoint.  status 0: fetch() rejected (network
\* error).  body "json": the body parses as JSON; "text": it does not.
TargetResponses ==
  {[status |-> 0, body |-> "none"], [status |-> Unauthorized, body |-> "json"]}
  \cup [status : {200, 403, 500}, body : {"json", "text"}]

\* Answers of the refresh endpoint: fetch rejected, non-ok status, ok with a
\* body that is not JSON, ok with a fresh pair.
RefreshResponses == {"neterr", "notok", "badjson", "ok"}

\* response.ok
Ok(r) == r.status >= 200 /\ r.status <= 299

\* Errors.  cls: the class of the thrown value; status 0: it has no status.
NoErr == [cls |-> "none", msg |-> "none", status |-> 0, body |-> "none"]
MatterAPIError(msg, status, body) ==
  [cls |-> "MatterAPIError", msg |-> msg, status |-> status, body |-> body]
\* fetch() rejects with a TypeError; so does reading a body already consumed.
TypeError == [cls |-> "TypeError", msg |-> "none", status |-> 0, body |-> "none"]
\* response.json() rejects with a SyntaxError on a body that is not JSON.
SyntaxError == [cls |-> "SyntaxError", msg |-> "none", status |-> 0, body |-> "none"]

NoResponse == [status |-> 0, body |-> "unset"]

\* ----------------------------------------------------------------- frames
\* A client is named by the process it was created for: the one client of
\* a session is client 1, the client of an HTTP request is that of the
\* request's process.  NoClient: no client was created for the process.
NoClient == [access |-> -2, refresh |-> -2]

\* Mutant of ClientOf: one client, kept by the module, serves every request.
ClientOf_Shared(p) == 1

\* `const client = new MatterClient(tokens)` in createMatterServer: the
\* client the handlers of process p call, its own when it has one.
ClientOf(p) == IF cred[p] # NoClient THEN p ELSE 1

NoReq ==
  [pc |-> "none", url |-> 0, hdr |-> 0, sent |-> <<>>, targetCalls |-> 0,
   refreshCalls |-> 0, refreshSent |-> 0, first |-> NoResponse,
   refresh |-> "none", observerThrew |-> FALSE, refreshed |-> FALSE,
   retry |-> NoResponse, before |-> [access |-> 0, refresh |-> 0],
   got |-> 0, refreshGot |-> 0]

NoResult == [articles |-> <<>>, nextUrl |-> NoCursor, article |-> NoEntry, id |-> 0]

NoCall(pc) ==
  [pc |-> pc, kind |-> "none", limitArg |-> 0, startArg |-> 0, articleId |-> 0,
   limit |-> 0, allArticles |-> <<>>, currentUrl |-> NoCursor, fetched |-> <<>>,
   outcome |-> "none", result |-> NoResult, err |-> NoErr]

\* A tool result: `content` (here `text`, the kind of text it carries) and
\* `isError`; `escaped` records a handler that ended by throwing instead.
NoToolResult == [isError |-> FALSE, text |-> "none", escaped |-> FALSE]

\* `arguments.limit` as it arrives: "noargs" (no arguments object), "absent",
\* "number" (the integer n) or "other" (a value that is not a number).
NoLimit == [kind |-> "absent", n |-> 0]

\* `arguments` as it arrives: the raw limit, the raw article_id (id 0: the
\* empty string; "absent": missing, or not a string) and the raw url.
NoArgs ==
  [limit |-> NoLimit, articleId |-> [kind |-> "absent", id |-> 0],
   url |-> "absent"]

\* The frame of a tool handler: the tool's name, the raw arguments, the
\* parsed `input.limit`, whether the client was called, the result, and the
\* result of the invocation served before this one.
NoTool ==
  [pc |-> "none", name |-> "none", limit |-> NoLimit,
   articleId |-> NoArgs.articleId, url |-> NoArgs.url, input |-> 0,
   delegated |-> FALSE, result |-> NoToolResult, prev |-> NoToolResult]

\* What getTokensFromRequest returns: `found` is FALSE for null.
NoTokens == [found |-> FALSE, accessToken |-> "", refreshToken |-> ""]

\* The Authorization header: its scheme ("none": no header), whether the
\* payload decodes to a JSON object, and the two values the payload carries
\* ("": the value is missing or empty).
NoAuth == [scheme |-> "none", json |-> FALSE, a |-> "", r |-> ""]

\* The MCP endpoint's request and its answer: `version` tells the two
\* getTokensFromRequest of api/mcp.ts apart, `created` is whether
\* createMatterServer was called.
NoHttp ==
  [pc |-> "none", version |-> 0, method |-> "none", auth |-> NoAuth,
   xAccess |-> "", xRefresh |-> "", status |-> 0, tokens |-> NoTokens,
   created |-> FALSE]
\* What a poll of the exchange endpoint came to: fetch rejected ("neterr"),
\* a status that is not ok ("notok"), a body that is not JSON ("badjson"),
\* or an ok answer ("ok") with the tokens it carries (<<>>: none).
NoAnswer == [kind |-> "none", access |-> <<>>, refresh |-> <<>>]

\* What the provider's trigger endpoint answered: fetch rejected ("neterr"),
\* a status that is not ok ("notok"), a body that is not JSON ("badjson"),
\* or an ok answer ("ok") and whether its body has the session token and
\* the QR payload.
NoTrigger == [kind |-> "none", session |-> FALSE, qrCode |-> FALSE]

\* The QR login flow of one authorization page: the handler's status, the
\* redirect_uri it was given (whether it is an absolute URL, and the query
\* it has), the `state` it was given and the one the page's script holds,
\* the trigger's answer, the pair the provider issues when the login
\* completes, the loop variable i of pollForTokens, the exchange calls
\* made, the status line shown, the redirects performed and the query of
\* the URL redirected to, the answer of the poll just made, and whether
\* every answer so far was "not yet".
NoQr ==
  [pc |-> "idle", status |-> 0, redirect |-> "absent", given |-> <<>>,
   state |-> <<>>, pageState |-> <<>>, trigger |-> NoTrigger,
   access |-> <<>>, refresh |-> <<>>, i |-> 0, calls |-> 0,
   shown |-> "waiting", redirects |-> 0, target |-> <<>>,
   last |-> NoAnswer, onlyPending |-> TRUE]
\* What the Bearer token of a request resolves to (`found` FALSE: nothing).
NoResolved == [found |-> FALSE, accessToken |-> <<>>, refreshToken |-> <<>>]

\* The envelope: the pair the page holds, the code it makes of it (or
\* `threw`), the redirect's query value, how the client delivers the code
\* to the token endpoint, and the token endpoint's answer: its status, the
\* pair the code decoded to, the `access_token` and `token_type` of the
\* body, or its `error`; then what the MCP endpoint resolves that
\* access_token to.  `answers`: the requests the token endpoint has served
\* for a client that presents codes again and again, each with its answer.
NoOauth ==
  [pc |-> "idle", access |-> <<>>, refresh |-> <<>>, threw |-> FALSE,
   code |-> <<>>, query |-> <<>>, method |-> "none", delivery |-> "none",
   status |-> 0, error |-> "none", outAccess |-> <<>>, outRefresh |-> <<>>,
   bearer |-> <<>>, tokenType |-> "none", resolved |-> NoResolved,
   answers |-> <<>>]

\* request(), up to its first await: the headers take the access token the
\* client holds now, and the first fetch is sent.
NewRequest(url, c) ==
  [NoReq EXCEPT !.pc = "await1", !.url = url, !.hdr = c.access,
                !.sent = <<c.access>>, !.targetCalls = 1, !.before = c]

\* ------------------------------------------------------- request(): pieces
\* Mutant of InstallPair: the refresh token of the response is not stored.
InstallPair_KeepsOldRefresh(cur, data) ==
  [access |-> data.access_token, refresh |-> cur.refresh]

\* refreshAccessToken: `this.accessToken = data.access_token;
\* this.refreshToken = data.refresh_token;` (one synchronous block).
InstallPair(cur, data) == [access |-> data.access_token, refresh |-> data.refresh_token]

\* Mutant of RefreshResult: request() retries whatever the refresh did.
RefreshResult_AlwaysTrue(resp, threw) == TRUE

\* Mutant of RefreshResult: the `!response.ok` test is missing.
RefreshResult_IgnoresStatus(resp, threw) == resp \in {"ok", "notok"} /\ ~threw

\* The value refreshAccessToken returns: true only when the endpoint answered
\* ok with a JSON body and nothing inside the try block threw; the observer
\* is called inside the try block, so its exception lands in `catch`.
RefreshResult(resp, threw) == resp = "ok" /\ ~threw

\* `throw new MatterAPIError("Authentication failed", 401)`
AuthenticationFailed == MatterAPIError("Authentication failed", Unauthorized, "none")

\* The error of a first response that is not ok and not 401:
\* `try { errorBody = await response.json() } catch { errorBody = await
\* response.text() }`.  json() consumes the body; when the body is not JSON
\* the fallback text() reads a consumed body and rejects with a TypeError,
\* which leaves request() instead of the MatterAPIError.
ErrorOfResponse(r) ==
  IF r.body = "json" THEN MatterAPIError("Request failed", r.status, "json")
  ELSE TypeError

\* Mutant of ErrorOfRetry: every failed retry is reported as 401.
ErrorOfRetry_Always401(r) ==
  MatterAPIError("Request failed after token refresh", Unauthorized, "none")

\* `Request failed after token refresh`, with the status of the retry.
ErrorOfRetry(r) == MatterAPIError("Request failed after token refresh", r.status, "none")

\* ---------------------------------------------------- operations: pieces
\* `const limit = options?.limit || 100` (0 stands for an absent limit too).
EffectiveLimit(limitArg) == IF limitArg = 0 THEN DefaultLimit ELSE limitArg

\* Mutant of StartUrl: the start cursor of the caller is ignored.
StartUrl_AlwaysFirst(startArg) == QueueFeedUrl

\* `options?.nextUrl || "/library_items/queue_feed/"`
StartUrl(startArg) == IF startArg = NoCursor THEN QueueFeedUrl ELSE startArg

\* Mutant of GetArticlesPage: the page is put in front of the accumulator.
GetArticlesPage_Prepends(all, limit, page) ==
  LET acc == page.feed \o all IN
  IF Len(acc) >= limit
    THEN [more |-> FALSE, all |-> acc, articles |-> SubSeq(acc, 1, limit), nextUrl |-> page.next]
    ELSE [more |-> page.next # NoCursor, all |-> acc, articles |-> acc, nextUrl |-> page.next]

\* Mutant of GetArticlesPage: `>` for `>=` in both tests of the limit.
GetArticlesPage_OffByOne(all, limit, page) ==
  LET acc == all \o page.feed IN
  IF Len(acc) > limit \/ (Len(acc) = limit /\ page.next = NoCursor)
    THEN [more |-> FALSE, all |-> acc, articles |-> SubSeq(acc, 1, limit), nextUrl |-> page.next]
    ELSE [more |-> page.next # NoCursor, all |-> acc, articles |-> acc, nextUrl |-> page.next]

\* Mutant of GetArticlesPage: an empty page is taken for the end of the feed.
GetArticlesPage_StopsOnEmpty(all, limit, page) ==
  LET acc == all \o page.feed IN
  IF Len(acc) >= limit
    THEN [more |-> FALSE, all |-> acc, articles |-> SubSeq(acc, 1, limit), nextUrl |-> page.next]
    ELSE IF page.next # NoCursor /\ Len(page.feed) > 0
      THEN [more |-> TRUE, all |-> acc, articles |-> acc, nextUrl |-> page.next]
      ELSE [more |-> FALSE, all |-> acc, articles |-> acc, nextUrl |-> NoCursor]

\* Mutant of GetArticlesPage: no cursor is handed out when the limit is hit.
GetArticlesPage_DropsCursor(all, limit, page) ==
  LET acc == all \o page.feed IN
  IF Len(acc) >= limit
    THEN [more |-> FALSE, all |-> acc, articles |-> SubSeq(acc, 1, limit), nextUrl |-> NoCursor]
    ELSE [more |-> page.next # NoCursor, all |-> acc, articles |-> acc, nextUrl |-> page.next]

\* Mutant of GetArticlesPage: at the limit the whole accumulator is returned.
GetArticlesPage_NoSlice(all, limit, page) ==
  LET acc == all \o page.feed IN
  IF Len(acc) >= limit
    THEN [more |-> FALSE, all |-> acc, articles |-> acc, nextUrl |-> page.next]
    ELSE [more |-> page.next # NoCursor, all |-> acc, articles |-> acc, nextUrl |-> page.next]

\* getArticles, one turn of the loop once the page has arrived: push the
\* page, return when the limit is reached, go on while there is a cursor,
\* otherwise fall out of the loop and return.  `all` is the accumulator
\* after the push, `articles` what is returned when the loop ends here.
GetArticlesPage(all, limit, page) ==
  LET acc == all \o page.feed IN
  IF Len(acc) >= limit
    THEN [more |-> FALSE, all |-> acc, articles |-> SubSeq(acc, 1, limit), nextUrl |-> page.next]
    ELSE IF page.next # NoCursor
      THEN [more |-> TRUE, all |-> acc, articles |-> acc, nextUrl |-> page.next]
      ELSE [more |-> FALSE, all |-> acc, articles |-> acc, nextUrl |-> page.next]

\* `entry.id === articleId || entry.content.id === articleId`
Matches(e, articleId) == e.id = articleId \/ (e.cid # 0 /\ e.cid = articleId)

\* Mutant of GetArticlePage: the last matching entry of the page is taken.
GetArticlePage_LastMatch(articleId, page) ==
  LET hits == {j \in 1..Len(page.feed) : Matches(page.feed[j], articleId)} IN
  IF hits # {}
    THEN [more |-> FALSE,
          article |-> page.feed[CHOOSE j \in hits : \A k \in hits : j >= k]]
    ELSE [more |-> page.next # NoCursor, article |-> NoEntry]

\* Mutant of GetArticlePage: a match does not end the loop.
GetArticlePage_KeepsGoing(articleId, page) ==
  LET hits == {j \in 1..Len(page.feed) : Matches(page.feed[j], articleId)} IN
  IF hits # {} /\ page.next = NoCursor
    THEN [more |-> FALSE,
          article |-> page.feed[CHOOSE j \in hits : \A k \in hits : j <= k]]
    ELSE [more |-> page.next # NoCursor, article |-> NoEntry]

\* getArticle, one turn of the loop: Array.prototype.find, then the cursor.
GetArticlePage(articleId, page) ==
  LET hits == {j \in 1..Len(page.feed) : Matches(page.feed[j], articleId)} IN
  IF hits # {}
    THEN [more |-> FALSE,
          article |-> page.feed[CHOOSE j \in hits : \A k \in hits : j <= k]]
    ELSE [more |-> page.next # NoCursor, article |-> NoEntry]

\* ---- the API v20 client (matter-api.ts, lines 1-430): its getArticle
\* A FeedEntry of the updates feed: `id` is a string (the sequence of its
\* code units), `cid` is content.id, a number.  The content id of one entry
\* is the id of the next, so that one identifier can match two entries.
UpdatesCid(k) == IF k = 1 THEN 12 ELSE IF k = 3 THEN 120 ELSE 7 * k

\* String(n) of an integer: its decimal numeral.
RECURSIVE NumberToString(_)
NumberToString(n) ==
  IF n < 0 THEN <<45>> \o NumberToString(0 - n)
  ELSE IF n < 10 THEN <<48 + n>>
  ELSE NumberToString(n \div 10) \o <<48 + (n % 10)>>

UpdatesEntry(k) ==
  [title |-> k,
   id |-> IF k % 2 = 0 THEN NumberToString(UpdatesCid(k - 1))
          ELSE <<101>> \o NumberToString(k),
   cid |-> UpdatesCid(k)]

\* The updates feed whose page i holds sizes[i] entries; `next` is not null
\* exactly on the pages that have a page after them.
MkUpdatesFeed(sizes) ==
  [i \in 1..Len(sizes) |->
     [feed |-> [j \in 1..sizes[i] |-> UpdatesEntry(SumTo(sizes, i - 1) + j)],
      next |-> IF i < Len(sizes) THEN i + 1 ELSE NoCursor,
      id   |-> 0]]

UpdatesFeeds ==
  UNION {{MkUpdatesFeed(s) : s \in [1..n -> 0..MaxPerPage]} : n \in 1..MaxPages}

IsDigit(c) == c >= 48 /\ c <= 57
\* The white space parseInt skips (of the characters the model has).
IsSpace(c) == c \in {9, 10, 11, 12, 13, 32, 160}

\* The value of a string of digits.
RECURSIVE DigitsValue(_)
DigitsValue(digits) ==
  IF digits = <<>> THEN 0
  ELSE 10 * DigitsValue(SubSeq(digits, 1, Len(digits) - 1))
         + (digits[Len(digits)] - 48)

\* parseInt(str, 10): leading white space is skipped, a sign is taken, then
\* the digits up to the first character that is not a digit; what follows
\* them is ignored; without a digit the result is NaN.
ParseInt(str) ==
  LET black == {i \in 1..Len(str) : ~IsSpace(str[i])}
      s == IF black = {} THEN Len(str) + 1
           ELSE CHOOSE i \in black : \A j \in black : i <= j
      signed == s <= Len(str) /\ str[s] \in {43, 45}
      d == IF signed THEN s + 1 ELSE s
      others == {i \in d..Len(str) : ~IsDigit(str[i])}
      e == IF others = {} THEN Len(str)
           ELSE (CHOOSE i \in others : \A j \in others : i <= j) - 1
  IN IF e < d THEN [nan |-> TRUE, n |-> 0]
     ELSE [nan |-> FALSE,
           n |-> IF signed /\ str[s] = 45 THEN 0 - DigitsValue(SubSeq(str, d, e))
                 ELSE DigitsValue(SubSeq(str, d, e))]

\* `entry.id === articleId || entry.content.id === numericId ||
\* String(entry.content.id) === articleId` (NaN is equal to no number).
MatchesUpdates(e, articleId, numericId) ==
  \/ e.id = articleId
  \/ (~numericId.nan /\ e.cid = numericId.n)
  \/ NumberToString(e.cid) = articleId

\* getArticle of the v20 client, one turn of the loop: find, then
\* `hasMore = feedResponse.next !== null; page++`.
GetArticleUpdatesPage(articleId, page) ==
  LET numericId == ParseInt(articleId)
      hits == {j \in 1..Len(page.feed) :
                 MatchesUpdates(page.feed[j], articleId, numericId)}
  IN IF hits # {}
       THEN [more |-> FALSE, found |-> TRUE,
             article |-> page.feed[CHOOSE j \in hits : \A k \in hits : j <= k]]
       ELSE [more |-> page.next # NoCursor, found |-> FALSE, article |-> NoEntry]

\* Mutant of SaveArticleResult: an identifier made up by the client.
SaveArticleResult_LocalId(body) == [NoResult EXCEPT !.id = 1]

\* saveArticle: `return response`, the parsed body as it came.
SaveArticleResult(body) == [NoResult EXCEPT !.id = body.id]

\* ----------------------------------------------------------- continuations
\* The operation of process p ends, with frame c and request frame r.
Return(p, c, r, result) ==
  /\ call' = [call EXCEPT ![p] =
                [c EXCEPT !.pc = "done", !.outcome = "returned", !.result = result]]
  /\ req' = [req EXCEPT ![p] = [r EXCEPT !.pc = "ret"]]

\* Mutant of Propagate: the operation catches and returns what it has.
Propagate_ReturnsPartial(c, e) ==
  [c EXCEPT !.pc = "done", !.outcome = "returned",
            !.result = [NoResult EXCEPT !.articles = c.allArticles]]

\* `await this.request(...)` rejects with e in an operation whose frame is
\* c: no operation has a try block, so the operation rejects with e and
\* its locals (the accumulator, the cursor) are dropped with the frame.
Propagate(c, e) == [c EXCEPT !.pc = "done", !.outcome = "threw", !.err = e]

\* request() throws e; no operation catches, so the operation throws e.
Throw(p, r, e) ==
  /\ call' = [call EXCEPT ![p] = Propagate(@, e)]
  /\ req' = [req EXCEPT ![p] = [r EXCEPT !.pc = "thrown"]]

\* The operation calls request(url) again (the model follows a traversal
\* for MaxFetches pages).
Fetch(p, c, url) ==
  /\ Len(c.fetched) < MaxFetches
  /\ call' = [call EXCEPT ![p] =
                [c EXCEPT !.currentUrl = url, !.fetched = Append(@, url)]]
  /\ req' = [req EXCEPT ![p] = NewRequest(url, cred[ClientOf(p)])]

\* request() returned the parsed body to the operation of process p.
Continue(p, r, body) ==
  LET c == call[p] IN
  CASE c.kind = "saveArticle" ->
         Return(p, c, r, SaveArticleResult(body))
    [] c.kind = "getArticles" ->
         LET s == GetArticlesPage(c.allArticles, c.limit, body)
             d == [c EXCEPT !.allArticles = s.all]
         IN IF s.more
              THEN Fetch(p, d, s.nextUrl)
              ELSE Return(p, [d EXCEPT !.currentUrl = body.next], r,
                          [NoResult EXCEPT !.articles = s.articles,
                                           !.nextUrl = s.nextUrl])
    [] c.kind = "getArticle" ->
         LET s == GetArticlePage(c.articleId, body) IN
         IF s.more
           THEN Fetch(p, c, body.next)
           ELSE Return(p, [c EXCEPT !.currentUrl =
                             IF s.article = NoEntry THEN body.next ELSE @],
                       r, [NoResult EXCEPT !.article = s.article])
    [] c.kind = "getArticleUpdates" ->
         LET s == GetArticleUpdatesPage(c.articleId, body) IN
         IF s.more
           THEN Fetch(p, c, c.currentUrl + 1)
           ELSE Return(p, c, r, [NoResult EXCEPT !.article = s.article])

\* The bodies the provider can answer with on `url`.
Bodies(url) == IF url = SaveUrl THEN {SaveBody(i) : i \in SaveIds} ELSE {feed[url]}

\* The operation `kind` of process p has returned.
Returned(p, kind) == call[p].kind = kind /\ call[p].outcome = "returned"

\* ---------------------------------------------------------------- actions
Idle(p) == call[p].pc = "idle" /\ tool[p].pc = "none" /\ opsDone[p] < MaxOps

\* Whether operations overlap on the client in this run.
Overlapping == \A p \in Procs : call[p].pc # "off"

\* The stateless deployment under load: every process has a request coming.
Stateless == \A p \in Procs : http[p].pc # "none"

\* The arguments the operations are called with (fewer when two overlap).
LimitArgs == IF Overlapping THEN {0, 1} ELSE 0..MaxLimit
StartArgs == IF Overlapping THEN {NoCursor} ELSE {NoCursor} \cup (2..Len(feed))
ArticleIds == IF Overlapping THEN {2} ELSE {1, 2, 9}

\* getArticles({limit, nextUrl}) up to the first await.
BeginGetArticles(p, limitArg, startArg) ==
  Fetch(p, [NoCall("run") EXCEPT !.kind = "getArticles",
                                 !.limitArg = limitArg,
                                 !.startArg = startArg,
                                 !.limit = EffectiveLimit(limitArg)],
        StartUrl(startArg))

\* getArticle(articleId) up to the first await.
BeginGetArticle(p, articleId) ==
  Fetch(p, [NoCall("run") EXCEPT !.kind = "getArticle", !.articleId = articleId],
        QueueFeedUrl)

\* saveArticle(url) up to the first await.
BeginSaveArticle(p) ==
  /\ call' = [call EXCEPT ![p] = [NoCall("run") EXCEPT !.kind = "saveArticle"]]
  /\ req' = [req EXCEPT ![p] = NewRequest(SaveUrl, cred[ClientOf(p)])]

\* A caller of the client starts getArticles.
StartGetArticles(p) ==
  /\ Idle(p)
  /\ \E limitArg \in LimitArgs, startArg \in StartArgs :
       BeginGetArticles(p, limitArg, startArg)
  /\ UNCHANGED <<cred, issued, hasObserver, notified, feed, opsDone, tool, web>>

\* The caller's following call: getArticles again, from the cursor the
\* call of process q returned (its frame is kept, the new call runs as p).
ResumeGetArticles(p, q) ==
  /\ call[p].pc = "off"
  /\ Returned(q, "getArticles")
  /\ call[q].result.nextUrl # NoCursor
  /\ \E limitArg \in 0..MaxLimit :
       BeginGetArticles(p, limitArg, call[q].result.nextUrl)
  /\ UNCHANGED <<cred, issued, hasObserver, notified, feed, opsDone, tool, web>>

\* A caller of the client starts getArticle.
StartGetArticle(p) ==
  /\ Idle(p)
  /\ \E articleId \in ArticleIds : BeginGetArticle(p, articleId)
  /\ UNCHANGED <<cred, issued, hasObserver, notified, feed, opsDone, tool, web>>

\* The identifiers getArticle of the v20 client is asked for: "12", "12a",
\* "012", "1", "e1", "x", "14.5", " 12".
UpdatesIds ==
  {<<49, 50>>, <<49, 50, 97>>, <<48, 49, 50>>, <<49>>, <<101, 49>>, <<120>>,
   <<49, 52, 46, 53>>, <<32, 49, 50>>}

\* A caller of the v20 client starts getArticle: page 1 is requested.
StartGetArticleUpdates(p) ==
  /\ Idle(p)
  /\ \E articleId \in UpdatesIds :
       Fetch(p, [NoCall("run") EXCEPT !.kind = "getArticleUpdates",
                                      !.articleId = articleId], 1)
  /\ UNCHANGED <<cred, issued, hasObserver, notified, feed, opsDone, tool, web>>

\* A caller of the client starts saveArticle.
StartSaveArticle(p) ==
  /\ Idle(p)
  /\ BeginSaveArticle(p)
  /\ UNCHANGED <<cred, issued, hasObserver, notified, feed, opsDone, tool, web>>

\* The first fetch rejects: the rejection leaves request() as it is.
FirstNetworkError(p) ==
  /\ req[p].pc = "await1"
  /\ Throw(p, [req[p] EXCEPT !.first = [status |-> 0, body |-> "none"]], TypeError)
  /\ UNCHANGED <<cred, issued, hasObserver, notified, feed, opsDone, tool, web>>

\* The first response is 401: refreshAccessToken is entered and sends the
\* refresh token the client holds now.
FirstUnauthorized(p) ==
  /\ req[p].pc = "await1"
  /\ req' = [req EXCEPT ![p] =
               [@ EXCEPT !.pc = "awaitRefresh",
                         !.first = [status |-> Unauthorized, body |-> "json"],
                         !.refreshCalls = @ + 1,
                         !.refreshSent = cred[ClientOf(p)].refresh,
                         !.before = cred[ClientOf(p)]]]
  /\ UNCHANGED <<cred, issued, hasObserver, notified, feed, call, opsDone, tool, web>>

\* The first response is neither ok nor 401.
FirstNotOk(p) ==
  /\ req[p].pc = "await1"
  /\ \E r \in TargetResponses :
       /\ r.status # 0 /\ r.status # Unauthorized /\ ~Ok(r)
       /\ Throw(p, [req[p] EXCEPT !.first = r], ErrorOfResponse(r))
  /\ UNCHANGED <<cred, issued, hasObserver, notified, feed, opsDone, tool, web>>

\* The first response is ok: `return response.json()`.
FirstOk(p) ==
  /\ req[p].pc = "await1"
  /\ \E r \in TargetResponses :
       /\ Ok(r)
       /\ LET f == [req[p] EXCEPT !.first = r] IN
          IF r.body = "json"
            THEN \E b \in Bodies(req[p].url) :
                   Continue(p, [f EXCEPT !.got = b.id], b)
            ELSE Throw(p, f, SyntaxError)
  /\ UNCHANGED <<cred, issued, hasObserver, notified, feed, opsDone, tool, web>>

\* refreshAccessToken has returned `refreshed` to request(), whose frame is f:
\* `if (refreshed) { ...retry... }  throw new MatterAPIError(...)`.
AfterRefresh(p, f) ==
  IF f.refreshed
    THEN /\ req' = [req EXCEPT ![p] = [f EXCEPT !.pc = "refreshed"]]
         /\ UNCHANGED call
    ELSE Throw(p, f, AuthenticationFailed)

\* The refresh call fails: fetch rejects, the status is not ok, or the body
\* is not JSON.  The client's fields are not touched.
RefreshFails(p) ==
  /\ req[p].pc = "awaitRefresh"
  /\ \E resp \in RefreshResponses \ {"ok"} :
       AfterRefresh(p, [req[p] EXCEPT !.refresh = resp,
                                      !.refreshed = RefreshResult(resp, FALSE)])
  /\ UNCHANGED <<cred, issued, hasObserver, notified, feed, opsDone, tool, web>>

\* The refresh endpoint answers ok with a fresh pair: the pair is installed,
\* the observer (when there is one) is called and may throw.
RefreshSucceeds(p) ==
  /\ req[p].pc = "awaitRefresh"
  /\ issued < MaxIssued
  /\ LET data == [access_token |-> issued + 1, refresh_token |-> issued + 1]
         new == InstallPair(cred[ClientOf(p)], data)
     IN /\ cred' = [cred EXCEPT ![ClientOf(p)] = new]
        /\ issued' = issued + 1
        /\ notified' = IF hasObserver THEN Append(notified, new) ELSE notified
        /\ \E threw \in (IF hasObserver THEN BOOLEAN ELSE {FALSE}) :
             AfterRefresh(p, [req[p] EXCEPT !.refresh = "ok",
                                            !.refreshGot = data.access_token,
                                            !.observerThrew = threw,
                                            !.refreshed = RefreshResult("ok", threw)])
  /\ UNCHANGED <<hasObserver, feed, opsDone, tool, web>>

\* Mutant of RetryHeader: the retry goes out with the headers of the first
\* attempt.
RetryHeader_Stale(f, c) == f.hdr

\* Authorization: `Bearer ${this.accessToken}`, in the headers of the retry.
RetryHeader(f, c) == c.access

\* request() resumes after `await this.refreshAccessToken()` returned true:
\* the header takes the access token the client holds now; the retry is sent.
RetrySend(p) ==
  /\ req[p].pc = "refreshed"
  /\ req' = [req EXCEPT ![p] =
               [@ EXCEPT !.pc = "await2",
                         !.hdr = RetryHeader(req[p], cred[ClientOf(p)]),
                         !.sent = Append(@, RetryHeader(req[p], cred[ClientOf(p)])),
                         !.targetCalls = @ + 1]]
  /\ UNCHANGED <<cred, issued, hasObserver, notified, feed, call, opsDone, tool, web>>

\* The retry rejects (network error).
RetryNetworkError(p) ==
  /\ req[p].pc = "await2"
  /\ Throw(p, [req[p] EXCEPT !.retry = [status |-> 0, body |-> "none"]], TypeError)
  /\ UNCHANGED <<cred, issued, hasObserver, notified, feed, opsDone, tool, web>>

\* The retry's response is not ok (401 included).
RetryNotOk(p) ==
  /\ req[p].pc = "await2"
  /\ \E r \in TargetResponses :
       /\ r.status # 0 /\ ~Ok(r)
       /\ Throw(p, [req[p] EXCEPT !.retry = r], ErrorOfRetry(r))
  /\ UNCHANGED <<cred, issued, hasObserver, notified, feed, opsDone, tool, web>>

\* The retry's response is ok: `return retryResponse.json()`.
RetryOk(p) ==
  /\ req[p].pc = "await2"
  /\ \E r \in TargetResponses :
       /\ Ok(r)
       /\ LET f == [req[p] EXCEPT !.retry = r] IN
          IF r.body = "json"
            THEN \E b \in Bodies(req[p].url) :
                   Continue(p, [f EXCEPT !.got = b.id], b)
            ELSE Throw(p, f, SyntaxError)
  /\ UNCHANGED <<cred, issued, hasObserver, notified, feed, opsDone, tool, web>>

\* The caller has taken the outcome; the process may start another operation.
Finish(p) ==
  /\ call[p].pc = "done"
  /\ tool[p].pc = "none"
  /\ call' = [call EXCEPT ![p] = NoCall("idle")]
  /\ req' = [req EXCEPT ![p] = NoReq]
  /\ opsDone' = [opsDone EXCEPT ![p] = @ + 1]
  /\ UNCHANGED <<cred, issued, hasObserver, notified, feed, tool, web>>

\* ------------------------------------------------------------ tool server
\* The tool handler of createMatterServer (src/src/server.ts): one try block
\* around the switch over the tool's name, one catch.
ZodError == [cls |-> "ZodError", msg |-> "validation", status |-> 0, body |-> "none"]

\* z.number().min(1).max(100).optional().default(20)
MinLimit == 1
LimitCap == 100
ToolDefaultLimit == 20

LimitNumbers == {MinLimit - 1, MinLimit, MinLimit + 1, LimitCap, LimitCap + 1}
LimitInputs ==
  {[kind |-> k, n |-> 0] : k \in {"noargs", "absent", "other"}}
    \cup {[kind |-> "number", n |-> n] : n \in LimitNumbers}

\* Mutant of ParseLimit: a number out of range is clamped, not rejected.
ParseLimit_Clamps(raw) ==
  CASE raw.kind = "absent" -> [ok |-> TRUE, limit |-> ToolDefaultLimit]
    [] raw.kind = "number" ->
         [ok |-> TRUE,
          limit |-> IF raw.n < MinLimit THEN MinLimit
                    ELSE IF raw.n > LimitCap THEN LimitCap ELSE raw.n]
    [] OTHER -> [ok |-> FALSE, limit |-> 0]

\* ListArticlesInputSchema.parse(args): `ok` is FALSE when parse throws.
ParseLimit(raw) ==
  CASE raw.kind = "absent" -> [ok |-> TRUE, limit |-> ToolDefaultLimit]
    [] raw.kind = "number" ->
         IF raw.n >= MinLimit /\ raw.n <= LimitCap
           THEN [ok |-> TRUE, limit |-> raw.n]
           ELSE [ok |-> FALSE, limit |-> 0]
    [] OTHER -> [ok |-> FALSE, limit |-> 0]

\* `arguments.article_id`: 0 stands for the empty string, "absent" for a
\* missing value or one that is not a string.
ArticleIdInputs ==
  IF Stateless THEN {[kind |-> "string", id |-> 9]}
  ELSE {[kind |-> "absent", id |-> 0]}
         \cup {[kind |-> "string", id |-> i] : i \in {0, 2, 9}}

\* GetArticleInputSchema.parse(args): z.string().min(1)
ParseArticleId(raw) == raw.kind = "string" /\ raw.id # 0

\* `arguments.url`: an absolute URL, a string that is none, no string.
UrlInputs == {"url", "nourl", "absent"}

\* Mutant of ParseUrl: any string passes.
ParseUrl_AnyString(raw) == raw # "absent"

\* SaveArticleInputSchema.parse(args): z.string().url()
ParseUrl(raw) == raw = "url"

\* Mutant of ToolCatch: the handler has no catch, the error leaves it.
ToolCatch_Rethrows(e) == [isError |-> FALSE, text |-> "none", escaped |-> TRUE]

\* catch (error) { return { content: `Error: ${message}`, isError: true } }
ToolCatch(e) == [isError |-> TRUE, text |-> "Error", escaped |-> FALSE]

\* default: return { content: `Unknown tool: ${name}`, isError: true }
UnknownTool == [isError |-> TRUE, text |-> "Unknown tool", escaped |-> FALSE]

\* The handler resumes after `await client.<operation>(...)`, whose frame is c.
ToolResultOf(name, c) ==
  IF c.outcome = "threw" THEN ToolCatch(c.err)
  ELSE CASE name = "matter_list_articles" ->
              [isError |-> FALSE, text |-> "list", escaped |-> FALSE]
         [] name = "matter_get_article" ->
              IF c.result.article = NoEntry
                THEN [isError |-> TRUE, text |-> "not found", escaped |-> FALSE]
                ELSE [isError |-> FALSE, text |-> "article", escaped |-> FALSE]
         [] name = "matter_save_article" ->
              [isError |-> FALSE, text |-> "saved", escaped |-> FALSE]

\* The server takes a tool call while no other is running on the process.
Callable(p) == call[p].pc = "idle" /\ tool[p].pc = "none" /\ opsDone[p] < MaxCalls

\* The handler ends before any await, with `result`.
ToolEnds(p, name, args, result) ==
  /\ tool' = [tool EXCEPT ![p] =
                [@ EXCEPT !.pc = "done", !.name = name, !.limit = args.limit,
                          !.articleId = args.articleId, !.url = args.url,
                          !.result = result]]
  /\ UNCHANGED <<call, req>>

\* The handler reaches `await client.<operation>(...)`.
ToolAwaits(p, name, args, input) ==
  tool' = [tool EXCEPT ![p] =
             [@ EXCEPT !.pc = "await", !.name = name, !.limit = args.limit,
                       !.articleId = args.articleId, !.url = args.url,
                       !.input = input, !.delegated = TRUE]]

\* case "matter_list_articles"
CallListArticles(p) ==
  /\ Callable(p)
  /\ \E raw \in LimitInputs :
       LET v == ParseLimit(raw) IN
       IF v.ok
         THEN /\ ToolAwaits(p, "matter_list_articles",
                            [NoArgs EXCEPT !.limit = raw], v.limit)
              /\ BeginGetArticles(p, v.limit, NoCursor)
         ELSE ToolEnds(p, "matter_list_articles",
                       [NoArgs EXCEPT !.limit = raw], ToolCatch(ZodError))
  /\ UNCHANGED <<cred, issued, hasObserver, notified, feed, opsDone, web>>

\* case "matter_get_article"
CallGetArticle(p) ==
  /\ Callable(p)
  /\ \E raw \in ArticleIdInputs :
       IF ParseArticleId(raw)
         THEN /\ ToolAwaits(p, "matter_get_article",
                            [NoArgs EXCEPT !.articleId = raw], 0)
              /\ BeginGetArticle(p, raw.id)
         ELSE ToolEnds(p, "matter_get_article",
                       [NoArgs EXCEPT !.articleId = raw], ToolCatch(ZodError))
  /\ UNCHANGED <<cred, issued, hasObserver, notified, feed, opsDone, web>>

\* case "matter_save_article"
CallSaveArticle(p) ==
  /\ Callable(p)
  /\ \E raw \in UrlInputs :
       IF ParseUrl(raw)
         THEN /\ ToolAwaits(p, "matter_save_article",
                            [NoArgs EXCEPT !.url = raw], 0)
              /\ BeginSaveArticle(p)
         ELSE ToolEnds(p, "matter_save_article",
                       [NoArgs EXCEPT !.url = raw], ToolCatch(ZodError))
  /\ UNCHANGED <<cred, issued, hasObserver, notified, feed, opsDone, web>>

\* default: a name that is none of the three tools.
CallUnknownTool(p) ==
  /\ Callable(p)
  /\ ToolEnds(p, "other", NoArgs, UnknownTool)
  /\ UNCHANGED <<cred, issued, hasObserver, notified, feed, opsDone, web>>

\* The awaited operation has ended: the handler builds its result.
ToolReturn(p) ==
  /\ tool[p].pc = "await"
  /\ call[p].pc = "done"
  /\ tool' = [tool EXCEPT ![p] =
                [@ EXCEPT !.pc = "done",
                          !.result = ToolResultOf(tool[p].name, call[p])]]
  /\ UNCHANGED <<cred, issued, hasObserver, notified, feed, call, req, opsDone, web>>

\* The result is sent; the server can take the next tool call.
ToolFinish(p) ==
  /\ tool[p].pc = "done"
  /\ tool' = [tool EXCEPT ![p] = [NoTool EXCEPT !.prev = tool[p].result]]
  /\ call' = [call EXCEPT ![p] = NoCall("idle")]
  /\ req' = [req EXCEPT ![p] = NoReq]
  /\ opsDone' = [opsDone EXCEPT ![p] = @ + 1]
  /\ UNCHANGED <<cred, issued, hasObserver, notified, feed, web>>

\* ----------------------------------------------------------- MCP endpoint
\* src/api/mcp.ts: the handler of one HTTP request (stateless transport).
NoContent == 204

\* The Authorization headers a request can carry.
AuthHeaders ==
  {NoAuth, [scheme |-> "Bearer", json |-> FALSE, a |-> "", r |-> ""]}
    \cup {[scheme |-> sc, json |-> TRUE, a |-> a, r |-> r] :
             sc \in {"Bearer", "Basic"}, a \in {"", "bA"}, r \in {"", "bR"}}

HttpRequests ==
  {[NoHttp EXCEPT !.version = v, !.method = m, !.auth = au,
                  !.xAccess = xa, !.xRefresh = xr] :
     v \in {1, 2}, m \in {"OPTIONS", "POST"}, au \in AuthHeaders,
     xa \in {"", "hA"}, xr \in {"", "hR"}}

\* `if (accessToken && refreshToken) return { accessToken, refreshToken }`
HeaderTokens(r) ==
  IF r.xAccess # "" /\ r.xRefresh # ""
    THEN [found |-> TRUE, accessToken |-> r.xAccess, refreshToken |-> r.xRefresh]
    ELSE NoTokens

\* Mutant of GetTokensFromRequest: one token is enough.
GetTokensFromRequest_Either(r) ==
  IF r.auth.scheme = "Bearer" /\ r.auth.json /\ (r.auth.a # "" \/ r.auth.r # "")
    THEN [found |-> TRUE, accessToken |-> r.auth.a, refreshToken |-> r.auth.r]
    ELSE IF r.xAccess # "" \/ r.xRefresh # ""
      THEN [found |-> TRUE, accessToken |-> r.xAccess, refreshToken |-> r.xRefresh]
      ELSE NoTokens

\* getTokensFromRequest (Bearer version): the Bearer payload decoded as
\* base64 JSON with accessToken and refreshToken, else the custom headers.
GetTokensFromRequest(r) ==
  IF r.auth.scheme = "Bearer" /\ r.auth.json /\ r.auth.a # "" /\ r.auth.r # ""
    THEN [found |-> TRUE, accessToken |-> r.auth.a, refreshToken |-> r.auth.r]
    ELSE HeaderTokens(r)

\* getTokensFromRequest (Basic version): the custom headers, else the Basic
\* payload split at ":" into clientId and clientSecret.
GetTokensFromRequestBasic(r) ==
  IF HeaderTokens(r).found THEN HeaderTokens(r)
  ELSE IF r.auth.scheme = "Basic" /\ r.auth.a # "" /\ r.auth.r # ""
    THEN [found |-> TRUE, accessToken |-> r.auth.a, refreshToken |-> r.auth.r]
    ELSE NoTokens

\* The requests that arrive: any request, and under load the POSTs that
\* carry a pair, in the Authorization header or in the custom headers.
InboundRequests ==
  IF Stateless
    THEN {r \in HttpRequests :
            /\ r.version = 2 /\ r.method = "POST"
            /\ \/ (r.auth = [scheme |-> "Bearer", json |-> TRUE, a |-> "bA", r |-> "bR"]
                     /\ r.xAccess = "" /\ r.xRefresh = "")
               \/ (r.auth = NoAuth /\ r.xAccess = "hA" /\ r.xRefresh = "hR")}
    ELSE HttpRequests

\* The pair the tokens of a request are, by number: 0 is the pair of the
\* Authorization header, -1 the pair of the custom headers.
ClientPair(tokens) ==
  [access |-> IF tokens.accessToken = "bA" THEN 0 ELSE -1,
   refresh |-> IF tokens.refreshToken = "bR" THEN 0 ELSE -1]

\* handler(req, res), up to `await server.connect(transport)`: the
\* preflight, the 401 answer, or createMatterServer(tokens), whose client
\* is constructed with the tokens of this request, for process p.
HttpHandler(p) ==
  /\ http[p].pc = "listening"
  /\ \E r \in InboundRequests :
       LET tokens == IF r.version = 2 THEN GetTokensFromRequest(r)
                     ELSE GetTokensFromRequestBasic(r)
       IN IF r.method = "OPTIONS"
            THEN /\ http' = [http EXCEPT ![p] =
                               [r EXCEPT !.pc = "answered", !.status = NoContent]]
                 /\ UNCHANGED <<call, cred>>
            ELSE IF ~tokens.found
              THEN /\ http' = [http EXCEPT ![p] =
                                 [r EXCEPT !.pc = "answered",
                                           !.status = Unauthorized,
                                           !.tokens = tokens]]
                   /\ UNCHANGED <<call, cred>>
              ELSE /\ http' = [http EXCEPT ![p] =
                                 [r EXCEPT !.pc = "serving", !.tokens = tokens,
                                           !.created = TRUE]]
                   /\ call' = [call EXCEPT ![p] = NoCall("idle")]
                   /\ cred' = [cred EXCEPT ![p] = ClientPair(tokens)]
  /\ UNCHANGED <<issued, hasObserver, notified, feed, req, opsDone, tool,
                 qr, oauth, reg, flows, logins>>

\* ------------------------------------------------- authorization code
\* The envelope that carries the pair from the authorization page
\* (src/api/oauth/authorize.ts, the page's script) to the token endpoint
\* (src/api/oauth/token.ts).  A string is the sequence of its UTF-16 code
\* units, a byte string the sequence of its bytes, both as numbers.
Replacement == 65533

\* The text JSON.stringify puts around the two values:
\* {"access_token":"  then  ","refresh_token":"  then  "}
JsonOpen == <<123, 34, 97, 99, 99, 101, 115, 115, 95, 116, 111, 107, 101, 110, 34, 58, 34>>
JsonMiddle == <<34, 44, 34, 114, 101, 102, 114, 101, 115, 104, 95, 116, 111, 107, 101, 110, 34, 58, 34>>
JsonClose == <<34, 125>>

\* The concatenation of the sequences of `ss`, by halves.
RECURSIVE Flatten(_)
Flatten(ss) ==
  IF Len(ss) = 0 THEN <<>>
  ELSE IF Len(ss) = 1 THEN ss[1]
  ELSE LET m == Len(ss) \div 2 IN
       Flatten(SubSeq(ss, 1, m)) \o Flatten(SubSeq(ss, m + 1, Len(ss)))

\* JSON.stringify of a string of printable characters: the quotation mark
\* and the backslash are escaped, every other character is copied.
JsonEscape(str) ==
  Flatten([i \in 1..Len(str) |->
             IF str[i] = 34 \/ str[i] = 92 THEN <<92, str[i]>> ELSE <<str[i]>>])

\* JSON.stringify({ access_token, refresh_token })
Stringify(access, refresh) ==
  JsonOpen \o JsonEscape(access) \o JsonMiddle \o JsonEscape(refresh) \o JsonClose

\* The character of the base64 alphabet with value v (64: the padding "=").
Base64Char(v) ==
  IF v < 26 THEN 65 + v
  ELSE IF v < 52 THEN 97 + (v - 26)
  ELSE IF v < 62 THEN 48 + (v - 52)
  ELSE IF v = 62 THEN 43
  ELSE IF v = 63 THEN 47
  ELSE 61

\* Base64 of a byte string, three bytes to four characters, padded: the
\* character at place j belongs to the group of bytes b1, b2, b3 (0 past
\* the end of the string).
Base64Encode(bytes) ==
  LET n == Len(bytes)
      at(i) == IF i <= n THEN bytes[i] ELSE 0
      char(j) ==
        LET g == 3 * ((j - 1) \div 4)
            k == (j - 1) % 4
        IN IF k = 0 THEN Base64Char(at(g + 1) \div 4)
           ELSE IF k = 1 THEN Base64Char((at(g + 1) % 4) * 16 + at(g + 2) \div 16)
           ELSE IF k = 2 THEN
             IF g + 2 > n THEN Base64Char(64)
             ELSE Base64Char((at(g + 2) % 16) * 4 + at(g + 3) \div 64)
           ELSE IF g + 3 > n THEN Base64Char(64)
           ELSE Base64Char(at(g + 3) % 64)
  IN [j \in 1..(4 * ((n + 2) \div 3)) |-> char(j)]

\* btoa(str): each code unit is one byte; a code unit above 255 makes it
\* throw InvalidCharacterError.
Btoa(str) ==
  IF \E i \in 1..Len(str) : str[i] > 255
    THEN [threw |-> TRUE, code |-> <<>>]
    ELSE [threw |-> FALSE, code |-> Base64Encode(str)]

\* The digit of value v (0..15) in upper-case hexadecimal, and back.
HexDigit(v) == IF v < 10 THEN 48 + v ELSE 65 + (v - 10)
HexValue(c) == IF c >= 48 /\ c <= 57 THEN c - 48
               ELSE IF c >= 65 /\ c <= 70 THEN c - 55
               ELSE IF c >= 97 /\ c <= 102 THEN c - 87 ELSE 0

Unreserved(c) ==
  \/ (c >= 48 /\ c <= 57) \/ (c >= 65 /\ c <= 90) \/ (c >= 97 /\ c <= 122)
  \/ c \in {42, 45, 46, 95}

\* url.searchParams.set('code', code), as the value appears in the query of
\* url.toString(): letters, digits and * - . _ are copied, the space becomes
\* "+", every other byte becomes %XX.
SearchParamsSet(value) ==
  Flatten([i \in 1..Len(value) |->
             IF Unreserved(value[i]) THEN <<value[i]>>
             ELSE IF value[i] = 32 THEN <<43>>
             ELSE <<37, HexDigit(value[i] \div 16), HexDigit(value[i] % 16)>>])

IsHex(c) == (c >= 48 /\ c <= 57) \/ (c >= 65 /\ c <= 70) \/ (c >= 97 /\ c <= 102)

\* Whether a %XX starts at query[i].
EscapeAt(query, i) ==
  /\ i >= 1 /\ i + 2 <= Len(query)
  /\ query[i] = 37 /\ IsHex(query[i + 1]) /\ IsHex(query[i + 2])

\* Whether query[i] is one of the two digits of a %XX that starts before it.
InEscape(query, i) == EscapeAt(query, i - 1) \/ EscapeAt(query, i - 2)

\* The value of a query parameter as its receiver reads it: "+" is a space,
\* %XX is the byte XX.
SearchParamsGet(query) ==
  Flatten([i \in 1..Len(query) |->
             IF InEscape(query, i) THEN <<>>
             ELSE IF EscapeAt(query, i)
               THEN <<HexValue(query[i + 1]) * 16 + HexValue(query[i + 2])>>
             ELSE IF query[i] = 43 THEN <<32>>
             ELSE <<query[i]>>])

\* The value of a character of the base64 alphabet (the URL-safe "-" and
\* "_" included), -1 for any other character.
Base64Value(c) ==
  IF c >= 65 /\ c <= 90 THEN c - 65
  ELSE IF c >= 97 /\ c <= 122 THEN c - 97 + 26
  ELSE IF c >= 48 /\ c <= 57 THEN c - 48 + 52
  ELSE IF c = 43 \/ c = 45 THEN 62
  ELSE IF c = 47 \/ c = 95 THEN 63
  ELSE -1

\* The values of the characters of the alphabet before the first "=".
Sextets(chars) ==
  LET pads == {i \in 1..Len(chars) : chars[i] = 61}
      end == IF pads = {} THEN Len(chars)
             ELSE (CHOOSE i \in pads : \A j \in pads : i <= j) - 1
  IN Flatten([i \in 1..end |->
                IF Base64Value(chars[i]) < 0 THEN <<>>
                ELSE <<Base64Value(chars[i])>>])

\* Four values to three bytes; the values left over give the bytes they
\* have all the bits of.
SextetsToBytes(v) ==
  LET byte(j) ==
        LET g == 4 * ((j - 1) \div 3)
            k == (j - 1) % 3
        IN IF k = 0 THEN v[g + 1] * 4 + v[g + 2] \div 16
           ELSE IF k = 1 THEN (v[g + 2] % 16) * 16 + v[g + 3] \div 4
           ELSE (v[g + 3] % 4) * 64 + v[g + 4]
  IN [j \in 1..((Len(v) * 3) \div 4) |-> byte(j)]

\* Buffer.from(code, "base64"): the characters up to the first "=" that
\* belong to the alphabet, four characters to three bytes.
BufferFromBase64(code) == SextetsToBytes(Sextets(code))

\* UTF-8: the number of continuation bytes the lead byte b asks for (0: b
\* cannot start a sequence), and the range its first continuation must be in.
Utf8Needed(b) ==
  IF b >= 194 /\ b <= 223 THEN 1
  ELSE IF b >= 224 /\ b <= 239 THEN 2
  ELSE IF b >= 240 /\ b <= 244 THEN 3 ELSE 0
Utf8Lower(b) == IF b = 224 THEN 160 ELSE IF b = 240 THEN 144 ELSE 128
Utf8Upper(b) == IF b = 237 THEN 159 ELSE IF b = 244 THEN 143 ELSE 191

\* How many of the bytes after the lead bytes[1] continue its sequence.
Utf8Valid(bytes) ==
  LET need == Utf8Needed(bytes[1])
      good(k) == /\ k + 1 <= Len(bytes)
                 /\ bytes[k + 1] >= (IF k = 1 THEN Utf8Lower(bytes[1]) ELSE 128)
                 /\ bytes[k + 1] <= (IF k = 1 THEN Utf8Upper(bytes[1]) ELSE 191)
      all == {k \in 0..need : \A j \in 1..k : good(j)}
  IN CHOOSE k \in all : \A j \in all : j <= k

\* The code units of the code point cp (a surrogate pair above U+FFFF).
CodeUnits(cp) ==
  IF cp < 65536 THEN <<cp>>
  ELSE <<55296 + ((cp - 65536) \div 1024), 56320 + ((cp - 65536) % 1024)>>

\* Whether the code unit c is the first, the second half of a surrogate pair.
HighSurrogate(c) == c >= 55296 /\ c <= 56319
LowSurrogate(c) == c >= 56320 /\ c <= 57343

\* The bytes of the code point cp in UTF-8.
Utf8Bytes(cp) ==
  IF cp < 128 THEN <<cp>>
  ELSE IF cp < 2048 THEN <<192 + (cp \div 64), 128 + (cp % 64)>>
  ELSE IF cp < 65536
    THEN <<224 + (cp \div 4096), 128 + ((cp \div 64) % 64), 128 + (cp % 64)>>
  ELSE <<240 + (cp \div 262144), 128 + ((cp \div 4096) % 64),
         128 + ((cp \div 64) % 64), 128 + (cp % 64)>>

\* A string to its bytes in UTF-8 (Buffer.from(str), and the serializer of
\* URLSearchParams): a surrogate pair is one code point, a surrogate that
\* stands alone becomes U+FFFD.
Utf8Encode(str) ==
  Flatten([i \in 1..Len(str) |->
             LET c == str[i] IN
             IF HighSurrogate(c) /\ i < Len(str) /\ LowSurrogate(str[i + 1])
               THEN Utf8Bytes(65536 + (c - 55296) * 1024 + (str[i + 1] - 56320))
             ELSE IF LowSurrogate(c) /\ i > 1 /\ HighSurrogate(str[i - 1])
               THEN <<>>
             ELSE IF HighSurrogate(c) \/ LowSurrogate(c)
               THEN Utf8Bytes(Replacement)
             ELSE Utf8Bytes(c)])

\* Whether bytes[i] continues the sequence of a lead byte before it.
Utf8Continues(bytes, i) ==
  \E l \in {i - 1, i - 2, i - 3} :
    /\ l >= 1
    /\ Utf8Needed(bytes[l]) > 0
    /\ Utf8Valid(SubSeq(bytes, l, Len(bytes))) >= i - l

\* The characters decoded at the byte that starts a sequence: the code
\* point, or U+FFFD for a sequence that is not UTF-8.
Utf8At(bytes) ==
  LET b == bytes[1]
      need == Utf8Needed(b)
  IN IF b < 128 THEN <<b>>
     ELSE IF need = 0 \/ Utf8Valid(bytes) < need THEN <<Replacement>>
     ELSE IF need = 1 THEN <<(b - 192) * 64 + (bytes[2] - 128)>>
     ELSE IF need = 2
       THEN <<(b - 224) * 4096 + (bytes[2] - 128) * 64 + (bytes[3] - 128)>>
     ELSE CodeUnits((b - 240) * 262144 + (bytes[2] - 128) * 4096
                      + (bytes[3] - 128) * 64 + (bytes[4] - 128))

\* buffer.toString("utf-8"): a byte sequence that is not UTF-8 becomes the
\* replacement character U+FFFD, and decoding goes on after it.
ToStringUtf8(bytes) ==
  Flatten([i \in 1..Len(bytes) |->
             IF Utf8Continues(bytes, i) THEN <<>>
             ELSE Utf8At(SubSeq(bytes, i, Len(bytes)))])

\* JSON.parse reads a string whose opening quotation mark is before text[i]:
\* `ok` is FALSE for a SyntaxError, `next` is the place after the closing
\* quotation mark.  Of the escapes, those of the quotation mark, the
\* backslash and the solidus are read; a printable string has no other.
RECURSIVE ReadString(_, _, _)
ReadString(text, i, acc) ==
  IF i > Len(text) \/ text[i] < 32 THEN [ok |-> FALSE, value |-> <<>>, next |-> i]
  ELSE IF text[i] = 34 THEN [ok |-> TRUE, value |-> acc, next |-> i + 1]
  ELSE IF text[i] = 92
    THEN IF i + 1 <= Len(text) /\ text[i + 1] \in {34, 92, 47}
           THEN ReadString(text, i + 2, Append(acc, text[i + 1]))
           ELSE [ok |-> FALSE, value |-> <<>>, next |-> i]
  ELSE ReadString(text, i + 1, Append(acc, text[i]))

\* Whether `lit` stands in `text` at place i.
At(text, i, lit) ==
  i + Len(lit) - 1 <= Len(text) /\ SubSeq(text, i, i + Len(lit) - 1) = lit

\* JSON.parse of the envelope's text, and `const { access_token,
\* refresh_token } = decoded`.
JsonParse(text) ==
  LET bad == [ok |-> FALSE, access_token |-> <<>>, refresh_token |-> <<>>]
      s1 == ReadString(text, Len(JsonOpen) + 1, <<>>)
      j == s1.next + Len(JsonMiddle) - 1
      s2 == ReadString(text, j, <<>>)
  IN IF ~At(text, 1, JsonOpen) \/ ~s1.ok THEN bad
     ELSE IF ~At(text, s1.next, Tail(JsonMiddle)) \/ ~s2.ok THEN bad
     ELSE IF ~At(text, s2.next, Tail(JsonClose))
               \/ s2.next + Len(JsonClose) - 2 # Len(text) THEN bad
     ELSE [ok |-> TRUE, access_token |-> s1.value, refresh_token |-> s2.value]

\* The text JSON.stringify puts around the two values of the combined
\* token:  {"accessToken":"  then  ","refreshToken":"  (then  "}  )
CombinedOpen == <<123, 34, 97, 99, 99, 101, 115, 115, 84, 111, 107, 101, 110, 34, 58, 34>>
CombinedMiddle == <<34, 44, 34, 114, 101, 102, 114, 101, 115, 104, 84, 111, 107, 101, 110, 34, 58, 34>>

\* Mutant of CombinedToken: the text's code units are taken as bytes.
CombinedToken_Latin1(access, refresh) ==
  LET text == CombinedOpen \o JsonEscape(access) \o CombinedMiddle
                \o JsonEscape(refresh) \o JsonClose
  IN Base64Encode([i \in 1..Len(text) |-> text[i] % 256])

\* `Buffer.from(JSON.stringify({ accessToken: access_token, refreshToken:
\* refresh_token })).toString("base64")`
CombinedToken(access, refresh) ==
  Base64Encode(Utf8Encode(CombinedOpen \o JsonEscape(access) \o CombinedMiddle
                            \o JsonEscape(refresh) \o JsonClose))

\* getTokensFromRequest on `Authorization: Bearer <token>` and no
\* x-matter-* header: `JSON.parse(Buffer.from(token, "base64").toString(
\* "utf-8"))`, then `decoded.accessToken && decoded.refreshToken`; a parse
\* that throws, or a value that is missing or empty, gives null.
BearerTokens(token) ==
  LET text == ToStringUtf8(BufferFromBase64(token))
      s1 == ReadString(text, Len(CombinedOpen) + 1, <<>>)
      s2 == ReadString(text, s1.next + Len(CombinedMiddle) - 1, <<>>)
  IN IF ~At(text, 1, CombinedOpen) \/ ~s1.ok THEN NoResolved
     ELSE IF ~At(text, s1.next, Tail(CombinedMiddle)) \/ ~s2.ok THEN NoResolved
     ELSE IF ~At(text, s2.next, Tail(JsonClose))
               \/ s2.next + Len(JsonClose) - 2 # Len(text) THEN NoResolved
     ELSE IF s1.value = <<>> \/ s2.value = <<>> THEN NoResolved
     ELSE [found |-> TRUE, accessToken |-> s1.value, refreshToken |-> s2.value]

\* `const code = btoa(JSON.stringify({ access_token, refresh_token }))`
AuthorizationCode(access, refresh) == Btoa(Stringify(access, refresh))

\* The page has the pair: it makes the code and redirects to redirect_uri
\* with the code in the query; when btoa throws, the catch of the polling
\* loop takes the error and there is no redirect.
Redirect ==
  /\ oauth.pc = "idle"
  /\ LET c == AuthorizationCode(oauth.access, oauth.refresh) IN
     oauth' = IF c.threw
                THEN [oauth EXCEPT !.pc = "pollerror", !.threw = TRUE]
                ELSE [oauth EXCEPT !.pc = "redirected", !.code = c.code,
                                   !.query = SearchParamsSet(c.code)]
  /\ UNCHANGED <<cred, issued, hasObserver, notified, feed, call, req, opsDone,
                 tool, http, qr, reg, flows, logins>>

NotAllowed == 405
BadRequest == 400
Success == 200

\* The `code` the handler reads when the client holds `held`: `req.body.code`
\* of a JSON body, or `params.get("code")` of a form-encoded body, in which
\* the client has written the code escaped.
DeliveredCode(held, delivery) ==
  IF delivery = "form" THEN ToStringUtf8(SearchParamsGet(SearchParamsSet(held)))
  ELSE held

\* Mutant of TokenStructure: the access token alone is enough.
TokenStructure_AccessOnly(decoded) == decoded.ok /\ decoded.access_token # <<>>

\* JSON.parse did not throw, and not `!access_token || !refresh_token`.
TokenStructure(decoded) ==
  decoded.ok /\ decoded.access_token # <<>> /\ decoded.refresh_token # <<>>

\* The answer of the token endpoint: its status, the `error` of its body,
\* the pair the code decoded to, the `access_token` and the `token_type`.
NoTokenAnswer ==
  [status |-> 0, error |-> "none", outAccess |-> <<>>, outRefresh |-> <<>>,
   bearer |-> <<>>, tokenType |-> "none"]

\* handler(req, res) of the token endpoint for a request with that method
\* whose body gives `code` (<<>>: none): the handler reads the request and
\* nothing else.
TokenAnswer(method, code) ==
  LET decoded == JsonParse(ToStringUtf8(BufferFromBase64(code))) IN
  IF method = "OPTIONS" THEN [NoTokenAnswer EXCEPT !.status = NoContent]
  ELSE IF method # "POST"
    THEN [NoTokenAnswer EXCEPT !.status = NotAllowed,
                               !.error = "Method not allowed"]
  ELSE IF code = <<>>
    THEN [NoTokenAnswer EXCEPT !.status = BadRequest,
                               !.error = "invalid_request"]
  ELSE IF ~TokenStructure(decoded)
    THEN [NoTokenAnswer EXCEPT !.status = BadRequest,
                               !.error = "invalid_grant"]
  ELSE [NoTokenAnswer EXCEPT
          !.status = Success,
          !.outAccess = decoded.access_token,
          !.outRefresh = decoded.refresh_token,
          !.bearer = CombinedToken(decoded.access_token, decoded.refresh_token),
          !.tokenType = "Bearer"]

\* The token endpoint's handler; the client sends the code it was given in
\* the redirect, as the `code` parameter of its request.
TokenHandler ==
  /\ oauth.pc = "redirected"
  /\ \E method \in {"OPTIONS", "GET", "POST"}, delivery \in {"json", "form"} :
       LET code == DeliveredCode(SearchParamsGet(oauth.query), delivery)
           answer == TokenAnswer(method, code)
       IN oauth' = [oauth EXCEPT !.pc = "answered", !.method = method,
                                 !.delivery = delivery,
                                 !.status = answer.status,
                                 !.error = answer.error,
                                 !.outAccess = answer.outAccess,
                                 !.outRefresh = answer.outRefresh,
                                 !.bearer = answer.bearer,
                                 !.tokenType = answer.tokenType]
  /\ UNCHANGED <<cred, issued, hasObserver, notified, feed, call, req, opsDone,
                 tool, http, qr, reg, flows, logins>>

\* Mutant of Redeemable: a code that was answered 200 is not taken again.
Redeemable_Once(code, answers) ==
  \A i \in 1..Len(answers) :
    answers[i].code = code => answers[i].answer.status # Success

\* Whether the handler takes `code` after the requests it has served: it
\* keeps no record of codes, and the code carries no expiry and no nonce.
Redeemable(code, answers) == TRUE

\* The codes a client holds and presents: those of two pairs, one that is
\* not base64 of JSON, and none.
RedeemCodes ==
  {Base64Encode(Utf8Encode(Stringify(<<97>>, <<114>>))),
   Base64Encode(Utf8Encode(Stringify(<<8364>>, <<34>>))),
   <<33, 33>>, <<>>}

\* A client presents a code it holds to the token endpoint, again or for
\* the first time.
Present ==
  /\ Len(oauth.answers) < MaxRedeems
  /\ \E held \in RedeemCodes, delivery \in {"json", "form"} :
       LET code == DeliveredCode(held, delivery)
           answer == IF Redeemable(code, oauth.answers)
                       THEN TokenAnswer("POST", code)
                       ELSE [NoTokenAnswer EXCEPT !.status = BadRequest,
                                                  !.error = "invalid_grant"]
       IN oauth' = [oauth EXCEPT !.answers =
                      Append(@, [code |-> held, delivery |-> delivery,
                                 answer |-> answer])]
  /\ UNCHANGED <<cred, issued, hasObserver, notified, feed, call, req, opsDone,
                 tool, http, qr, reg, flows, logins>>

\* The client presents the access_token of the token endpoint's answer to
\* the MCP endpoint, in `Authorization: Bearer`.
Resource ==
  /\ oauth.pc = "answered"
  /\ oauth.status = Success
  /\ oauth' = [oauth EXCEPT !.pc = "resolved",
                            !.resolved = BearerTokens(oauth.bearer)]
  /\ UNCHANGED <<cred, issued, hasObserver, notified, feed, call, req, opsDone,
                 tool, http, qr, reg, flows, logins>>

\* ---------------------------------------------------- client registration
\* src/api/oauth/token.ts, lines 73-110: the handler of the registration
\* endpoint.
Created == 201

\* The registration endpoint has no variable of its own.  `uuids` is the
\* history of crypto.randomUUID, which belongs to the generator: the
\* values it has returned; `answers` is the responses sent, in order, each
\* with the request it answers.
NoReg == [uuids |-> {}, answers |-> <<>>]

\* The values randomUUID can return, and those it has not returned yet: a
\* version-4 UUID is taken to be one that was not returned before.
Uuids == 1..(MaxRegs + 1)
RandomUUID == Uuids \ reg.uuids

\* `req.body`: none, a body that is not an object, an object without the
\* two fields, an object with them.
RegistrationBodies ==
  {[kind |-> "none", client_name |-> "", redirect_uris |-> <<>>],
   [kind |-> "text", client_name |-> "", redirect_uris |-> <<>>],
   [kind |-> "object", client_name |-> "", redirect_uris |-> <<>>],
   [kind |-> "object", client_name |-> "A", redirect_uris |-> <<"cb">>]}

\* Mutant of ClientId: the identifier is made of the client's name.
ClientId_FromName(body, uuid) == IF body.client_name = "" THEN 1 ELSE 2

\* `const clientId = randomUUID()`
ClientId(body, uuid) == uuid

\* The response to a request with that method and body, when randomUUID
\* returns `uuid`.
RegistrationAnswer(method, body, uuid) ==
  LET none == [method |-> method, body |-> body, status |-> 0, client_id |-> 0,
               client_name |-> "", redirect_uris |-> <<>>]
  IN IF method = "OPTIONS" THEN [none EXCEPT !.status = NoContent]
     ELSE IF method # "POST" THEN [none EXCEPT !.status = NotAllowed]
     ELSE [none EXCEPT !.status = Created,
                       !.client_id = ClientId(body, uuid),
                       !.client_name = IF body.client_name # ""
                                         THEN body.client_name ELSE "MCP Client",
                       !.redirect_uris = body.redirect_uris]

\* handler(req, res) of the registration endpoint, one request.
Register ==
  /\ Len(reg.answers) < MaxRegs
  /\ \E method \in {"OPTIONS", "GET", "POST"}, body \in RegistrationBodies,
        uuid \in RandomUUID :
       reg' = [uuids |-> IF method = "POST" THEN reg.uuids \cup {uuid}
                         ELSE reg.uuids,
               answers |-> Append(reg.answers,
                                  RegistrationAnswer(method, body, uuid))]
  /\ UNCHANGED <<cred, issued, hasObserver, notified, feed, call, req, opsDone,
                 tool, http, qr, oauth, flows, logins>>

\* --------------------------------------------------------- QR login flow
\* src/api/oauth/authorize.ts: the handler, and pollForTokens of its page.
PollLimit == 120
ServerError == 500

\* The answers of the provider's trigger endpoint: fetch rejects, a status
\* that is not ok, a body that is not JSON, and the ok answers, with and
\* without the session token, with and without the QR payload.
TriggerResponses ==
  {[NoTrigger EXCEPT !.kind = k] : k \in {"neterr", "notok", "badjson"}}
    \cup {[kind |-> "ok", session |-> s, qrCode |-> c] :
             s \in BOOLEAN, c \in BOOLEAN}

\* Mutant of TriggerAccepted: the session token is enough.
TriggerAccepted_SessionOnly(t) == t.kind = "ok" /\ t.session

\* Neither `!triggerResponse.ok` nor the catch, and not
\* `!sessionToken || !qrCodeUrl`: the page is served.
TriggerAccepted(t) == t.kind = "ok" /\ t.session /\ t.qrCode

\* The pairs the provider can issue for a login.
IssuedPairs == {[access |-> a, refresh |-> <<97>>] : a \in {<<97>>, <<8364>>}}

\* A query is the sequence of its parameters, each a name and the value as
\* it is written in the URL.  The redirect_uri values a client registers:
\* no query, a parameter of its own, and a `code` left over in it.
RedirectQueries ==
  {<<>>,
   <<[name |-> "x", value |-> <<49>>]>>,
   <<[name |-> "code", value |-> <<48>>], [name |-> "x", value |-> <<49>>],
     [name |-> "code", value |-> <<50>>]>>}

\* The `state` values a client sends (<<>>: none, or the empty string,
\* which `state || ""` makes the same): a letter, characters the query
\* has to escape, a quotation mark and a backslash, a character above
\* U+007F.
StateValues == {<<>>, <<97>>, <<43, 38, 32>>, <<34, 92>>, <<8364>>}

\* `${JSON.stringify(state || "")}` in the page's script, and the string
\* the script has when it runs.
ScriptLiteral(str) == <<34>> \o JsonEscape(str) \o <<34>>
ScriptString(text) == ReadString(text, 2, <<>>).value

\* searchParams.set(name, value): the first parameter of that name takes
\* the value and the others of that name go; without one, it is appended.
SetParam(query, name, value) ==
  LET named == {i \in 1..Len(query) : query[i].name = name}
      first == CHOOSE i \in named : \A j \in named : i <= j
      new == [name |-> name, value |-> value]
  IN IF named = {} THEN Append(query, new)
     ELSE Flatten([i \in 1..Len(query) |->
                     IF i = first THEN <<new>>
                     ELSE IF i \in named THEN <<>> ELSE <<query[i]>>])

\* Mutant of RedirectTarget: the state is left out.
RedirectTarget_NoState(query, code, state) ==
  SetParam(query, "code", SearchParamsSet(code))

\* `url.searchParams.set('code', code); if (state)
\* url.searchParams.set('state', state)`: the query of url.toString().
RedirectTarget(query, code, state) ==
  LET withCode == SetParam(query, "code", SearchParamsSet(code))
  IN IF state # <<>>
       THEN SetParam(withCode, "state", SearchParamsSet(Utf8Encode(state)))
       ELSE withCode

\* handler(req, res) of the authorization endpoint: without redirect_uri
\* 400, without a session token and a QR payload from the trigger 500,
\* else the page, whose script enters pollForTokens.
Authorize ==
  /\ qr.pc = "idle"
  /\ \E redirect \in {"absent", "invalid", "valid"}, given \in RedirectQueries,
        state \in StateValues, trigger \in TriggerResponses,
        pair \in IssuedPairs :
       /\ redirect # "valid" => given = <<>>
       /\ qr' = IF redirect = "absent"
                  THEN [NoQr EXCEPT !.status = BadRequest]
                  ELSE IF ~TriggerAccepted(trigger)
                    THEN [NoQr EXCEPT !.status = ServerError,
                                      !.redirect = redirect,
                                      !.trigger = trigger]
                    ELSE [NoQr EXCEPT !.pc = "loop", !.status = Success,
                                      !.redirect = redirect,
                                      !.given = given,
                                      !.state = state,
                                      !.pageState =
                                         ScriptString(ScriptLiteral(state)),
                                      !.trigger = trigger,
                                      !.access = pair.access,
                                      !.refresh = pair.refresh]
  /\ UNCHANGED <<cred, issued, hasObserver, notified, feed, call, req, opsDone,
                 tool, http, oauth, reg, flows, logins>>

\* Mutant of LoopContinues: one turn more.
LoopContinues_Inclusive(i) == i <= PollLimit

\* `i < 120`
LoopContinues(i) == i < PollLimit

\* The loop's test holds: fetch('/api/oauth/exchange') is called.
PollSend ==
  /\ qr.pc = "loop"
  /\ LoopContinues(qr.i)
  /\ qr' = [qr EXCEPT !.pc = "fetch", !.calls = @ + 1, !.last = NoAnswer]
  /\ UNCHANGED <<cred, issued, hasObserver, notified, feed, call, req, opsDone,
                 tool, http, oauth, reg, flows, logins>>

\* The loop's test fails: the page shows the timeout.
PollTimeout ==
  /\ qr.pc = "loop"
  /\ ~LoopContinues(qr.i)
  /\ qr' = [qr EXCEPT !.pc = "timedout", !.shown = "timed out"]
  /\ UNCHANGED <<cred, issued, hasObserver, notified, feed, call, req, opsDone,
                 tool, http, oauth, reg, flows, logins>>

\* The answers a poll can get while the login of `q` is under way.
PollAnswers(q) ==
  {[NoAnswer EXCEPT !.kind = k] : k \in {"neterr", "notok", "badjson"}}
    \cup {[kind |-> "ok", access |-> a, refresh |-> r] :
             a \in {<<>>, q.access}, r \in {<<>>, q.refresh}}

\* Mutant of HasPair: one token is enough.
HasPair_Either(answer) ==
  answer.kind = "ok" /\ (answer.access # <<>> \/ answer.refresh # <<>>)

\* `response.ok` and, of the parsed body, `accessToken && refreshToken`
HasPair(answer) ==
  answer.kind = "ok" /\ answer.access # <<>> /\ answer.refresh # <<>>

\* The exchange call is answered.  With a pair: the status line, the code,
\* `new URL(redirectUri)`, the redirect and `return`; when btoa or new URL
\* throws, the catch takes the error like that of a failed poll.
PollAnswer ==
  /\ qr.pc = "fetch"
  /\ \E answer \in PollAnswers(qr) :
       LET q == [qr EXCEPT !.last = answer,
                           !.onlyPending =
                              @ /\ answer.kind = "ok"
                                /\ (answer.access = <<>>) = (answer.refresh = <<>>)]
           code == AuthorizationCode(answer.access, answer.refresh)
       IN qr' = IF ~HasPair(answer) THEN [q EXCEPT !.pc = "sleep"]
                ELSE IF code.threw \/ qr.redirect # "valid"
                  THEN [q EXCEPT !.pc = "sleep", !.shown = "connected"]
                  ELSE [q EXCEPT !.pc = "redirected", !.shown = "connected",
                                 !.redirects = @ + 1,
                                 !.target =
                                    RedirectTarget(qr.given, code.code,
                                                   qr.pageState)]
  /\ UNCHANGED <<cred, issued, hasObserver, notified, feed, call, req, opsDone,
                 tool, http, oauth, reg, flows, logins>>

\* `await new Promise(r => setTimeout(r, 1000))` is over: `i++`.
PollSleep ==
  /\ qr.pc = "sleep"
  /\ qr' = [qr EXCEPT !.pc = "loop", !.i = @ + 1]
  /\ UNCHANGED <<cred, issued, hasObserver, notified, feed, call, req, opsDone,
                 tool, http, oauth, reg, flows, logins>>

\* ------------------------------------------------ several QR flows at once
\* src/api/oauth/authorize.ts (handler and page script) with the exchange
\* proxy (src/unnamed/part_001), for several authorization requests whose
\* flows run side by side.  Neither handler has a variable outside its own
\* invocation, and each page is a document of its own.
Flows == {1, 2}

\* One flow: the handler's status, the query of the redirect_uri and the
\* state it was given, the state and the session token the page's script
\* holds, the session token the trigger returned (<<>>: none), the loop
\* variable i, the session tokens the page has sent to the exchange
\* endpoint, the one the proxy's invocation for this page has passed on,
\* the answer of the poll just made, the query of the URL redirected to.
NoFlow ==
  [pc |-> "idle", status |-> 0, given |-> <<>>, state |-> <<>>,
   pageState |-> <<>>, session |-> <<>>, pageSession |-> <<>>, i |-> 0,
   polled |-> <<>>, proxied |-> <<>>, last |-> NoAnswer, target |-> <<>>]
NoFlows == [f \in Flows |-> NoFlow]

\* The provider (the environment): how many login sessions its trigger
\* endpoint has opened, those whose QR code was scanned and approved, and
\* the session tokens its exchange endpoint was called with, in order.
NoLogins == [opened |-> 0, scanned |-> {}, asked |-> <<>>]

\* The session token of the k-th login session ("s1", "s2", ...): the
\* provider is taken to give every trigger call a token of its own.
SessionToken(k) == <<115>> \o NumberToString(k)
\* The pair the provider issues for the login of session k.
LoginPair(k) == [access |-> <<97>> \o NumberToString(k),
                 refresh |-> <<114>> \o NumberToString(k)]
\* The session a token belongs to (0: none).
SessionOf(token) ==
  IF \E k \in 1..logins.opened : SessionToken(k) = token
    THEN CHOOSE k \in 1..logins.opened : SessionToken(k) = token
    ELSE 0

\* What the clients give: two redirect_uri values and two states.
FlowRedirects == {<<>>, <<[name |-> "x", value |-> <<49>>]>>}
FlowStates == {<<97>>, <<34, 92>>}

\* Mutant of ProxyToken: the proxy keeps the session token of the request
\* before and passes that one on.
ProxyToken_Previous(body, asked) ==
  IF asked = <<>> THEN body ELSE asked[Len(asked)]

\* `const { session_token } = req.body || {}` and `body: JSON.stringify({
\* session_token })`: the token passed on is the one of this request.
ProxyToken(body, asked) == body

\* What the proxy answers the page for the provider's answer: a rejected
\* fetch and a body that is not JSON end in the catch (500), any other
\* answer is passed on with its status.
ProxyRelay(answer) ==
  IF answer.kind \in {"neterr", "badjson"}
    THEN [NoAnswer EXCEPT !.kind = "notok"] ELSE answer

\* The provider's answers to an exchange call for `token`: the fetch
\* rejects, a status that is not ok, a body that is not JSON, or ok: with
\* the pair of the token's session when its login is complete, without
\* tokens while it is not.
ExchangeAnswers(token) ==
  {[NoAnswer EXCEPT !.kind = k] : k \in {"neterr", "notok", "badjson"}}
    \cup {IF SessionOf(token) \in logins.scanned
            THEN [kind |-> "ok", access |-> LoginPair(SessionOf(token)).access,
                  refresh |-> LoginPair(SessionOf(token)).refresh]
            ELSE [NoAnswer EXCEPT !.kind = "ok"]}

\* handler(req, res) of the authorization endpoint for the request of flow
\* f: the trigger call, then 500 or the page with the session token, the
\* redirect_uri and the state written into its script.
FlowAuthorize(f) ==
  /\ flows[f].pc = "idle"
  /\ \E given \in FlowRedirects, state \in FlowStates,
        trigger \in TriggerResponses :
       LET opens == trigger.kind = "ok" /\ trigger.session
           token == SessionToken(logins.opened + 1)
       IN /\ logins' = [logins EXCEPT !.opened = IF opens THEN @ + 1 ELSE @]
          /\ flows' = [flows EXCEPT ![f] =
               IF ~TriggerAccepted(trigger)
                 THEN [NoFlow EXCEPT !.pc = "refused", !.status = ServerError]
                 ELSE [NoFlow EXCEPT !.pc = "loop", !.status = Success,
                                     !.given = given, !.state = state,
                                     !.pageState = ScriptString(ScriptLiteral(state)),
                                     !.session = token,
                                     !.pageSession =
                                        ScriptString(ScriptLiteral(token))]]
  /\ UNCHANGED <<cred, issued, hasObserver, notified, feed, call, req, opsDone,
                 tool, http, qr, oauth, reg>>

\* The page of flow f calls fetch('/api/oauth/exchange') with its session
\* token; the proxy takes the token from the body and calls the provider's
\* exchange endpoint (the model follows a flow for MaxPolls polls).
FlowPollSend(f) ==
  /\ flows[f].pc = "loop"
  /\ LoopContinues(flows[f].i)
  /\ flows[f].i < MaxPolls
  /\ LET token == ProxyToken(flows[f].pageSession, logins.asked) IN
     /\ flows' = [flows EXCEPT ![f] =
                    [@ EXCEPT !.pc = "fetch",
                              !.polled = Append(@, flows[f].pageSession),
                              !.proxied = token, !.last = NoAnswer]]
     /\ logins' = [logins EXCEPT !.asked = Append(@, token)]
  /\ UNCHANGED <<cred, issued, hasObserver, notified, feed, call, req, opsDone,
                 tool, http, qr, oauth, reg>>

\* The provider answers the exchange call made for flow f, the proxy passes
\* the answer on, the page takes it: with a pair it makes the code and
\* redirects, otherwise it sleeps a second and goes round the loop.
FlowPollAnswer(f) ==
  /\ flows[f].pc = "fetch"
  /\ \E provided \in ExchangeAnswers(flows[f].proxied) :
       LET answer == ProxyRelay(provided)
           code == AuthorizationCode(answer.access, answer.refresh)
       IN flows' = [flows EXCEPT ![f] =
            IF ~HasPair(answer) \/ code.threw
              THEN [@ EXCEPT !.pc = "loop", !.last = answer, !.i = @ + 1]
              ELSE [@ EXCEPT !.pc = "redirected", !.last = answer,
                             !.target = RedirectTarget(flows[f].given, code.code,
                                                       flows[f].pageState)]]
  /\ UNCHANGED <<cred, issued, hasObserver, notified, feed, call, req, opsDone,
                 tool, http, qr, oauth, reg, logins>>

\* The user scans the QR code of login session k with the app and approves.
FlowScan(k) ==
  /\ k \in 1..logins.opened
  /\ k \notin logins.scanned
  /\ logins' = [logins EXCEPT !.scanned = @ \cup {k}]
  /\ UNCHANGED <<cred, issued, hasObserver, notified, feed, call, req, opsDone,
                 tool, http, qr, oauth, reg, flows>>

\* ---------------------------------------------------------- specifications
\* new MatterClient(tokens, onTokenRefresh?)
Constructed ==
  /\ cred = [p \in Procs |-> IF p = 1 THEN [access |-> 0, refresh |-> 0]
                                       ELSE NoClient]
  /\ issued = 0
  /\ hasObserver \in BOOLEAN
  /\ notified = <<>>
  /\ req = [p \in Procs |-> NoReq]
  /\ tool = [p \in Procs |-> NoTool]

\* One operation at a time on the client (a stateless HTTP request, or a
\* session whose tool calls do not overlap), over every feed.
Init ==
  /\ Constructed
  /\ feed \in Feeds
  /\ call = [p \in Procs |-> IF p = 1 THEN NoCall("idle") ELSE NoCall("off")]
  /\ opsDone = [p \in Procs |-> 0]
  /\ http = [p \in Procs |-> NoHttp] /\ qr = NoQr /\ oauth = NoOauth /\ reg = NoReg
  /\ flows = NoFlows /\ logins = NoLogins

\* Two operations overlapping on one client (concurrent tool calls of one
\* stdio or SSE session), one operation per process, over one feed.
ConcFeed == MkFeed(<<1, 1>>)

InitConc ==
  /\ Constructed
  /\ feed = ConcFeed
  /\ call = [p \in Procs |-> NoCall("idle")]
  /\ opsDone = [p \in Procs |-> MaxOps - 1]
  /\ http = [p \in Procs |-> NoHttp] /\ qr = NoQr /\ oauth = NoOauth /\ reg = NoReg
  /\ flows = NoFlows /\ logins = NoLogins

Next ==
  \E p \in Procs :
    \/ StartGetArticles(p)
    \/ StartGetArticle(p)
    \/ StartSaveArticle(p)
    \/ FirstNetworkError(p)
    \/ FirstUnauthorized(p)
    \/ FirstNotOk(p)
    \/ FirstOk(p)
    \/ RefreshFails(p)
    \/ RefreshSucceeds(p)
    \/ RetrySend(p)
    \/ RetryNetworkError(p)
    \/ RetryNotOk(p)
    \/ RetryOk(p)
    \/ Finish(p)

Spec == Init /\ [][Next]_vars

\* The v20 client: one getArticle over every updates feed.
InitUpdates ==
  /\ Constructed
  /\ hasObserver = FALSE
  /\ feed \in UpdatesFeeds
  /\ call = [p \in Procs |-> IF p = 1 THEN NoCall("idle") ELSE NoCall("off")]
  /\ opsDone = [p \in Procs |-> 0]
  /\ http = [p \in Procs |-> NoHttp] /\ qr = NoQr /\ oauth = NoOauth /\ reg = NoReg
  /\ flows = NoFlows /\ logins = NoLogins

NextUpdates ==
  \E p \in Procs :
    \/ StartGetArticleUpdates(p)
    \/ FirstNetworkError(p)
    \/ FirstUnauthorized(p)
    \/ FirstNotOk(p)
    \/ FirstOk(p)
    \/ RefreshFails(p)
    \/ RefreshSucceeds(p)
    \/ RetrySend(p)
    \/ RetryNetworkError(p)
    \/ RetryNotOk(p)
    \/ RetryOk(p)
    \/ Finish(p)

SpecUpdates == InitUpdates /\ [][NextUpdates]_vars

\* A caller that goes on where a call stopped: getArticles, and then
\* getArticles from the cursor it returned.
InitResume ==
  /\ Constructed
  /\ hasObserver = FALSE
  /\ feed \in Feeds
  /\ call = [p \in Procs |-> IF p = 1 THEN NoCall("idle") ELSE NoCall("off")]
  /\ opsDone = [p \in Procs |-> 0]
  /\ http = [p \in Procs |-> NoHttp] /\ qr = NoQr /\ oauth = NoOauth /\ reg = NoReg
  /\ flows = NoFlows /\ logins = NoLogins

NextResume ==
  \/ StartGetArticles(1)
  \/ ResumeGetArticles(2, 1)
  \/ \E p \in Procs :
       \/ FirstNetworkError(p)
       \/ FirstUnauthorized(p)
       \/ FirstNotOk(p)
       \/ FirstOk(p)
       \/ RefreshFails(p)
       \/ RefreshSucceeds(p)
       \/ RetrySend(p)
       \/ RetryNetworkError(p)
       \/ RetryNotOk(p)
       \/ RetryOk(p)

SpecResume == InitResume /\ [][NextResume]_vars

\* A provider whose cursors come back: the last page of the feed points to
\* a page of the feed (to itself, or to one before it).  One operation on
\* a client without observer.
MkCycle(sizes, back) == [MkFeed(sizes) EXCEPT ![Len(sizes)].next = back]

CyclicFeeds ==
  UNION {{MkCycle(s, back) : s \in [1..n -> 0..MaxPerPage], back \in 1..n} :
           n \in 1..MaxPages}

InitCycle ==
  /\ Constructed
  /\ hasObserver = FALSE
  /\ feed \in CyclicFeeds
  /\ call = [p \in Procs |-> IF p = 1 THEN NoCall("idle") ELSE NoCall("off")]
  /\ opsDone = [p \in Procs |-> MaxOps - 1]
  /\ http = [p \in Procs |-> NoHttp] /\ qr = NoQr /\ oauth = NoOauth /\ reg = NoReg
  /\ flows = NoFlows /\ logins = NoLogins

SpecCycle == InitCycle /\ [][Next]_vars

SpecConc == InitConc /\ [][Next]_vars

\* createMatterServer(tokens): `new MatterClient(tokens)`, no observer; the
\* server takes tool calls one after the other, over a feed of one page and
\* a feed of two.
InitTool ==
  /\ Constructed
  /\ hasObserver = FALSE
  /\ feed \in {MkFeed(<<MaxPerPage>>), ConcFeed}
  /\ call = [p \in Procs |-> IF p = 1 THEN NoCall("idle") ELSE NoCall("off")]
  /\ opsDone = [p \in Procs |-> 0]
  /\ http = [p \in Procs |-> NoHttp] /\ qr = NoQr /\ oauth = NoOauth /\ reg = NoReg
  /\ flows = NoFlows /\ logins = NoLogins

NextTool ==
  \E p \in Procs :
    \/ CallListArticles(p)
    \/ CallGetArticle(p)
    \/ CallSaveArticle(p)
    \/ CallUnknownTool(p)
    \/ FirstNetworkError(p)
    \/ FirstUnauthorized(p)
    \/ FirstNotOk(p)
    \/ FirstOk(p)
    \/ RefreshFails(p)
    \/ RefreshSucceeds(p)
    \/ RetrySend(p)
    \/ RetryNetworkError(p)
    \/ RetryNotOk(p)
    \/ RetryOk(p)
    \/ ToolReturn(p)
    \/ ToolFinish(p)

SpecTool == InitTool /\ [][NextTool]_vars

\* No server and no client exist yet; one that is created serves one tool
\* call (the stateless transport: one HTTP request, one message).
NoServer ==
  /\ cred = [p \in Procs |-> NoClient]
  /\ issued = 0
  /\ notified = <<>>
  /\ req = [p \in Procs |-> NoReq]
  /\ tool = [p \in Procs |-> NoTool]
  /\ hasObserver = FALSE
  /\ feed = ConcFeed
  /\ call = [p \in Procs |-> NoCall("off")]
  /\ opsDone = [p \in Procs |-> MaxCalls - 1]

\* The MCP endpoint takes one request.
InitHttp ==
  /\ NoServer
  /\ http = [p \in Procs |-> IF p = 1 THEN [NoHttp EXCEPT !.pc = "listening"]
                                       ELSE NoHttp]
  /\ qr = NoQr /\ oauth = NoOauth /\ reg = NoReg
  /\ flows = NoFlows /\ logins = NoLogins

NextHttp ==
  \/ \E p \in Procs : HttpHandler(p)
  \/ NextTool

SpecHttp == InitHttp /\ [][NextHttp]_vars

\* The MCP endpoint takes a request on every process: the requests overlap
\* or follow one another, each served by the server created for it.
InitStateless ==
  /\ NoServer
  /\ http = [p \in Procs |-> [NoHttp EXCEPT !.pc = "listening"]]
  /\ qr = NoQr /\ oauth = NoOauth /\ reg = NoReg
  /\ flows = NoFlows /\ logins = NoLogins

NextStateless ==
  \E p \in Procs :
    \/ HttpHandler(p)
    \/ CallGetArticle(p)
    \/ CallSaveArticle(p)
    \/ FirstNetworkError(p)
    \/ FirstUnauthorized(p)
    \/ FirstNotOk(p)
    \/ FirstOk(p)
    \/ RefreshFails(p)
    \/ RefreshSucceeds(p)
    \/ RetrySend(p)
    \/ RetryNetworkError(p)
    \/ RetryNotOk(p)
    \/ RetryOk(p)
    \/ ToolReturn(p)
    \/ ToolFinish(p)

SpecStateless == InitStateless /\ [][NextStateless]_vars

\* The tokens of the envelope: strings of printable characters, among them
\* the quotation mark, the backslash, characters whose base64 has "+" and
\* "/", characters of Latin-1 above U+007F and one character above U+00FF.
TokenChars == {97, 34, 92, 126, 63, 233, 195, 169, 8364}
Strings(n) == UNION {[1..k -> TokenChars] : k \in 1..n}

InitEnvelope ==
  /\ NoServer
  /\ http = [p \in Procs |-> NoHttp] /\ qr = NoQr /\ reg = NoReg
  /\ flows = NoFlows /\ logins = NoLogins
  /\ oauth \in {[NoOauth EXCEPT !.access = a, !.refresh = r] :
                  a \in Strings(MaxTokenLen), r \in Strings(1)}

NextEnvelope ==
  \/ Redirect
  \/ TokenHandler

SpecEnvelope == InitEnvelope /\ [][NextEnvelope]_vars

\* The client of the token endpoint holds an authorization code that
\* decodes to a pair: base64 of the UTF-8 JSON text of the pair.
InitToken ==
  /\ NoServer
  /\ http = [p \in Procs |-> NoHttp] /\ qr = NoQr /\ reg = NoReg
  /\ flows = NoFlows /\ logins = NoLogins
  /\ oauth \in {[NoOauth EXCEPT
                    !.pc = "redirected", !.access = a, !.refresh = r,
                    !.code = Base64Encode(Utf8Encode(Stringify(a, r))),
                    !.query = SearchParamsSet(
                                Base64Encode(Utf8Encode(Stringify(a, r))))] :
                  a \in Strings(MaxTokenLen), r \in {<<97>>, <<8364, 92>>}}

NextToken ==
  \/ TokenHandler
  \/ Resource

SpecToken == InitToken /\ [][NextToken]_vars

\* The codes that reach the token endpoint, with the pair each holds (<<>>
\* for a token it does not hold): no code, characters that are no base64,
\* base64 of a text that is not JSON, of an object without refresh_token,
\* of objects with an empty token, and the codes of pairs.
WithoutRefresh(a) == JsonOpen \o JsonEscape(a) \o JsonClose
AnyCodes ==
  {[code |-> <<>>, access |-> <<>>, refresh |-> <<>>],
   [code |-> <<33, 33>>, access |-> <<>>, refresh |-> <<>>],
   [code |-> Base64Encode(<<97, 98, 99>>), access |-> <<>>, refresh |-> <<>>],
   [code |-> Base64Encode(WithoutRefresh(<<97>>)), access |-> <<97>>,
    refresh |-> <<>>]}
    \cup {[code |-> Base64Encode(Utf8Encode(Stringify(a, r))),
            access |-> a, refresh |-> r] :
             a \in Strings(MaxTokenLen) \cup {<<>>}, r \in {<<>>, <<97>>}}

\* A client of the token endpoint sends whatever code it has.
InitCodes ==
  /\ NoServer
  /\ http = [p \in Procs |-> NoHttp] /\ qr = NoQr /\ reg = NoReg
  /\ flows = NoFlows /\ logins = NoLogins
  /\ oauth \in {[NoOauth EXCEPT !.pc = "redirected", !.access = c.access,
                                !.refresh = c.refresh, !.code = c.code,
                                !.query = SearchParamsSet(c.code)] :
                  c \in AnyCodes}

NextCodes == TokenHandler

SpecCodes == InitCodes /\ [][NextCodes]_vars

\* A client of the token endpoint presents codes again and again.
InitRedeem ==
  /\ NoServer
  /\ http = [p \in Procs |-> NoHttp] /\ qr = NoQr /\ reg = NoReg
  /\ flows = NoFlows /\ logins = NoLogins
  /\ oauth = NoOauth

NextRedeem == Present

SpecRedeem == InitRedeem /\ [][NextRedeem]_vars

\* The registration endpoint takes requests one after the other.
InitReg ==
  /\ NoServer
  /\ http = [p \in Procs |-> NoHttp] /\ qr = NoQr /\ oauth = NoOauth /\ reg = NoReg
  /\ flows = NoFlows /\ logins = NoLogins

NextReg == Register

SpecReg == InitReg /\ [][NextReg]_vars

\* One authorization page and its polling.
InitQR ==
  /\ NoServer
  /\ http = [p \in Procs |-> NoHttp] /\ oauth = NoOauth /\ reg = NoReg
  /\ flows = NoFlows /\ logins = NoLogins
  /\ qr = NoQr

NextQR ==
  \/ Authorize
  \/ PollSend
  \/ PollAnswer
  \/ PollSleep
  \/ PollTimeout

SpecQR == InitQR /\ [][NextQR]_vars

\* The page's script runs on: every fetch settles, every timer fires.
SpecQRFair ==
  /\ SpecQR
  /\ WF_vars(PollSend) /\ WF_vars(PollAnswer)
  /\ WF_vars(PollSleep) /\ WF_vars(PollTimeout)

\* Several authorization requests, their pages polling side by side.
InitFlows ==
  /\ NoServer
  /\ http = [p \in Procs |-> NoHttp] /\ qr = NoQr /\ oauth = NoOauth /\ reg = NoReg
  /\ flows = NoFlows /\ logins = NoLogins

NextFlows ==
  \/ \E f \in Flows : FlowAuthorize(f) \/ FlowPollSend(f) \/ FlowPollAnswer(f)
  \/ \E k \in 1..Cardinality(Flows) : FlowScan(k)

SpecFlows == InitFlows /\ [][NextFlows]_vars

\* ------------------------------------------------------------------ claims
\* The kinds of the error taxonomy, read off the thrown value: the one
\* machine-readable field of MatterAPIError is its status.
AuthExpired(e) == e.cls = "MatterAPIError" /\ e.status = Unauthorized
RequestFailed(e) == e.cls = "MatterAPIError" /\ e.status # Unauthorized

\* A response (not a rejected fetch) that is not a success.
Failure(r) == r.status # 0 /\ ~Ok(r)

\* C1: in one request() call the target is requested at most twice and the
\* refresh endpoint at most once, and the target is requested a second time
\* only after a first response 401 and a refresh that succeeded.
C1_AtMostTwoAttemptsOneRefresh ==
  \A p \in Procs :
    /\ req[p].targetCalls <= 2
    /\ req[p].refreshCalls <= 1
    /\ Len(req[p].sent) = req[p].targetCalls
    /\ req[p].targetCalls = 2 =>
         /\ req[p].first.status = Unauthorized
         /\ req[p].refresh = "ok"
         /\ req[p].refreshCalls = 1

\* C1 witness: a request() call that returned after its retry.
C1_Witness ==
  \E p \in Procs : req[p].pc = "ret" /\ req[p].targetCalls = 2

\* The case of C2: first response 401, refresh succeeded, retry not ok.
RetryFailed(p) ==
  /\ req[p].pc = "thrown"
  /\ req[p].first.status = Unauthorized
  /\ req[p].refreshed
  /\ Failure(req[p].retry)

\* C2 as stated: whenever the retry after a successful refresh fails with
\* any non-success response, the error surfaced is of kind AuthExpired.
C2_Original ==
  \A p \in Procs : RetryFailed(p) => AuthExpired(call[p].err)

\* C2 amended: the error surfaced after a failed retry is the MatterAPIError
\* "Request failed after token refresh" carrying the retry's status, so it
\* is an authentication failure exactly when the retry was answered 401;
\* the call has then sent two target requests and one refresh, and is over.
C2_RetryFailureCarriesRetryStatus ==
  \A p \in Procs :
    RetryFailed(p) =>
      /\ call[p].pc = "done" /\ call[p].outcome = "threw"
      /\ call[p].err.cls = "MatterAPIError"
      /\ call[p].err.msg = "Request failed after token refresh"
      /\ call[p].err.status = req[p].retry.status
      /\ AuthExpired(call[p].err) <=> (req[p].retry.status = Unauthorized)
      /\ req[p].targetCalls = 2 /\ req[p].refreshCalls = 1

\* C2 witnesses: a retry answered 500, surfaced with status 500.
C2_Witness ==
  \E p \in Procs : RetryFailed(p) /\ req[p].retry.status = 500

\* C3: when the first response is 401 and the refresh call fails, the call
\* throws the authentication failure (401) at once: the target was
\* requested once only.
C3_RefreshFailureIsAuthExpired ==
  \A p \in Procs :
    (req[p].first.status = Unauthorized /\ req[p].refresh \in {"neterr", "notok", "badjson"})
      => /\ req[p].pc = "thrown"
         /\ call[p].outcome = "threw"
         /\ call[p].err = AuthenticationFailed
         /\ AuthExpired(call[p].err)
         /\ req[p].targetCalls = 1
         /\ req[p].refreshCalls = 1

\* C3 witness: a refresh whose fetch was rejected.
C3_Witness ==
  \E p \in Procs : req[p].refresh = "neterr" /\ req[p].pc = "thrown"

\* C4 as stated: a first response that is neither ok nor 401 makes the call
\* fail with RequestFailed carrying that status, without a refresh and
\* without a second target request.
C4_NonOkIsRequestFailed ==
  \A p \in Procs :
    (req[p].first.status # Unauthorized /\ Failure(req[p].first))
      => /\ req[p].pc = "thrown"
         /\ RequestFailed(call[p].err)
         /\ call[p].err.status = req[p].first.status
         /\ req[p].refreshCalls = 0
         /\ req[p].targetCalls = 1

\* C5 as stated: when the refresh endpoint answered with a fresh pair, a
\* throwing observer does not fail the request: the call never ends without
\* having sent its retry.
C5_ObserverFailureDoesNotFail ==
  \A p \in Procs :
    (req[p].refresh = "ok" /\ req[p].observerThrew)
      => ~(req[p].pc = "thrown" /\ req[p].targetCalls = 1)

\* One pair as the refresh endpoint issues it.
Paired(c) == c.access = c.refresh

\* C6: the client always holds the pair it was constructed with or the pair
\* of one refresh response, never the access token of one pair with the
\* refresh token of another, also while operations overlap; the observer is
\* only ever given such pairs.
C6_PairIsNeverMixed ==
  /\ Paired(cred[1])
  /\ cred[1].access \in 0..issued
  /\ \A i \in 1..Len(notified) : Paired(notified[i])
  /\ \A p \in Procs : req[p].refreshCalls = 1 => Paired(req[p].before)

\* C6 witness: two overlapping calls have each installed a refreshed pair.
C6_Witness ==
  /\ \A p \in Procs : req[p].refresh = "ok" /\ req[p].pc = "refreshed"
  /\ issued = 2

\* ---- the feed as the provider lays it out, for the claims on traversals
RECURSIVE PagesFrom(_)
\* The URLs of the pages from `url` on, following the cursors.
PagesFrom(url) ==
  IF url = NoCursor THEN <<>> ELSE <<url>> \o PagesFrom(feed[url].next)

RECURSIVE ItemsOf(_)
\* The entries of the pages `urls`, concatenated.
ItemsOf(urls) ==
  IF urls = <<>> THEN <<>> ELSE feed[Head(urls)].feed \o ItemsOf(Tail(urls))

\* The pages and entries a getArticles call of process p has before it.
PagesAhead(p) == PagesFrom(StartUrl(call[p].startArg))
ItemsAhead(p) == ItemsOf(PagesAhead(p))

\* The least number of pages ahead whose entries reach `limit`.
PagesNeeded(p, limit) ==
  CHOOSE k \in 1..Len(PagesAhead(p)) :
    /\ Len(ItemsOf(SubSeq(PagesAhead(p), 1, k))) >= limit
    /\ \A j \in 1..(k - 1) : Len(ItemsOf(SubSeq(PagesAhead(p), 1, j))) < limit

\* C7: over a chain of pages ending in a page without cursor, getArticles
\* with a limit above the number of entries returns all entries of all
\* pages in their order, with nextUrl null.
C7_AllItemsInOrder ==
  \A p \in Procs :
    (Returned(p, "getArticles") /\ call[p].limit > Len(ItemsAhead(p)))
      => /\ call[p].result.articles = ItemsAhead(p)
         /\ call[p].result.nextUrl = NoCursor
         /\ call[p].fetched = PagesAhead(p)

\* C7 witness: a traversal of two non-empty pages under a limit given by
\* the caller that exceeds their entries.
C7_Witness ==
  \E p \in Procs :
    /\ Returned(p, "getArticles")
    /\ call[p].limitArg > Len(ItemsAhead(p))
    /\ Len(call[p].fetched) = 2
    /\ \A i \in 1..2 : Len(feed[call[p].fetched[i]].feed) > 0

\* C8: for a (positive) limit below the number of entries, getArticles
\* returns exactly the first `limit` entries in order, and the pages it
\* fetched are the shortest prefix of the pages whose entries reach the limit.
C8_ExactlyLimitShortestPrefix ==
  \A p \in Procs :
    (Returned(p, "getArticles") /\ call[p].limitArg >= 1
       /\ call[p].limitArg < Len(ItemsAhead(p)))
      => /\ call[p].result.articles = SubSeq(ItemsAhead(p), 1, call[p].limitArg)
         /\ Len(call[p].result.articles) = call[p].limitArg
         /\ call[p].fetched =
              SubSeq(PagesAhead(p), 1, PagesNeeded(p, call[p].limitArg))

\* C8 witness: the limit is reached inside the first page, entries of that
\* page are cut off, and the second page is not fetched.
C8_Witness ==
  \E p \in Procs :
    /\ Returned(p, "getArticles")
    /\ call[p].limitArg = 1
    /\ Len(feed[QueueFeedUrl].feed) = 2
    /\ call[p].fetched = <<QueueFeedUrl>>
    /\ Len(PagesAhead(p)) = 2

\* A fetched page without entries that carries a cursor.
EmptyWithCursor(url) == Len(feed[url].feed) = 0 /\ feed[url].next # NoCursor

\* C9: a page with zero entries and a cursor never ends a traversal: in
\* getArticles and in getArticle the page the cursor points to is fetched
\* next, the entries of later pages are returned (up to the limit), and an
\* entry that matches on a later page is found.
C9_EmptyPageDoesNotEnd ==
  \A p \in Procs :
    (Returned(p, "getArticles") \/ Returned(p, "getArticle")) =>
      /\ \A i \in 1..Len(call[p].fetched) :
           EmptyWithCursor(call[p].fetched[i]) =>
             /\ i < Len(call[p].fetched)
             /\ call[p].fetched[i + 1] = feed[call[p].fetched[i]].next
      /\ Returned(p, "getArticles") =>
           \/ Len(call[p].result.articles) = call[p].limit
           \/ call[p].result.articles = ItemsAhead(p)
      /\ Returned(p, "getArticle") =>
           ((\E j \in 1..Len(ItemsOf(PagesFrom(QueueFeedUrl))) :
               Matches(ItemsOf(PagesFrom(QueueFeedUrl))[j], call[p].articleId))
             => call[p].result.article # NoEntry)

\* C9 witness: getArticle finds its entry on the page after an empty page.
C9_Witness ==
  \E p \in Procs :
    /\ Returned(p, "getArticle")
    /\ EmptyWithCursor(QueueFeedUrl)
    /\ Len(call[p].fetched) = 2
    /\ call[p].result.article # NoEntry

\* C10: the nextUrl getArticles returns is the cursor of the last page it
\* fetched when it stopped at the limit, and null when it stopped at a page
\* without cursor; no page is fetched twice.
C10_CursorOfLastFetchedPage ==
  \A p \in Procs :
    Returned(p, "getArticles") =>
      LET f == call[p].fetched
          last == feed[f[Len(f)]]
      IN /\ Len(f) >= 1
         /\ Len(call[p].allArticles) >= call[p].limit
              => call[p].result.nextUrl = last.next
         /\ Len(call[p].allArticles) < call[p].limit
              => (last.next = NoCursor /\ call[p].result.nextUrl = NoCursor)
         /\ \A i, j \in 1..Len(f) : f[i] = f[j] => i = j

\* C10 witness: stopped at the limit with entries of the last page cut off
\* and that page's cursor handed out.
C10_Witness ==
  \E p \in Procs :
    /\ Returned(p, "getArticles")
    /\ Len(call[p].result.articles) = call[p].limit
    /\ Len(ItemsOf(call[p].fetched)) > call[p].limit
    /\ call[p].result.nextUrl # NoCursor
    /\ call[p].result.nextUrl = feed[call[p].fetched[Len(call[p].fetched)]].next

\* The first entry of `items` that getArticle's test accepts, NoEntry if none.
FirstMatch(items, articleId) ==
  LET hits == {j \in 1..Len(items) : Matches(items[j], articleId)} IN
  IF hits = {} THEN NoEntry
  ELSE items[CHOOSE j \in hits : \A k \in hits : j <= k]

WholeFeed == ItemsOf(PagesFrom(QueueFeedUrl))

\* C11: getArticle returns null, without an error, when it has traversed the
\* whole feed up to the page without cursor and no entry matches; when
\* several entries match, it returns the first in page order and, within
\* a page, in entry order.
C11_FirstMatchOrNull ==
  \A p \in Procs :
    Returned(p, "getArticle") =>
      /\ call[p].result.article = FirstMatch(WholeFeed, call[p].articleId)
      /\ call[p].err = NoErr
      /\ (call[p].result.article = NoEntry)
           => call[p].fetched = PagesFrom(QueueFeedUrl)

\* C11 witness: two entries of one page match the identifier (one by its id,
\* one by its content id) and the first of them is returned.
C11_Witness ==
  \E p \in Procs :
    /\ Returned(p, "getArticle")
    /\ Len(feed[QueueFeedUrl].feed) = 2
    /\ \A j \in 1..2 : Matches(feed[QueueFeedUrl].feed[j], call[p].articleId)
    /\ call[p].result.article = feed[QueueFeedUrl].feed[1]

\* C13: saveArticle returns the identifier the provider assigned, unchanged;
\* it requests the enqueue endpoint once when the first answer is not 401
\* and at most twice otherwise, and it never has an identifier of its own:
\* a call that fails returns none.
C13_SaveOnceProviderId ==
  \A p \in Procs :
    call[p].kind = "saveArticle" =>
      /\ req[p].url = SaveUrl
      /\ call[p].fetched = <<>>
      /\ req[p].targetCalls <= 2
      /\ (req[p].first # NoResponse /\ req[p].first.status # Unauthorized)
           => req[p].targetCalls = 1
      /\ call[p].outcome = "returned"
           => (call[p].result.id = req[p].got /\ req[p].got \in SaveIds)
      /\ call[p].outcome # "returned" => call[p].result.id = 0

\* C13 witness: a save answered at the first request, with identifier 8.
C13_Witness ==
  \E p \in Procs :
    /\ Returned(p, "saveArticle")
    /\ req[p].targetCalls = 1
    /\ call[p].result.id = 8

\* A tool handler of process p that has built its result.
ToolDone(p, name) == tool[p].pc = "done" /\ tool[p].name = name

\* C12: the 'get article' tool reports an article that was not found as a
\* result that is not flagged as an error, while a failure of the provider
\* is flagged as one.
C12_NotFoundIsNotAnError ==
  \A p \in Procs :
    (ToolDone(p, "matter_get_article") /\ tool[p].delegated) =>
      /\ (call[p].outcome = "returned" /\ call[p].result.article = NoEntry)
           => ~tool[p].result.isError
      /\ call[p].outcome = "threw" => tool[p].result.isError

InRange(raw) == raw.kind = "number" /\ raw.n >= MinLimit /\ raw.n <= LimitCap

Clamp(n) == IF n < MinLimit THEN MinLimit ELSE IF n > LimitCap THEN LimitCap ELSE n

\* C14 as stated: every integer limit reaches the paginator clamped into
\* 1..100, and no limit reaches it as 20.
C14_Original ==
  \A p \in Procs :
    tool[p].name = "matter_list_articles" =>
      /\ tool[p].limit.kind = "number"
           => (tool[p].delegated /\ call[p].limitArg = Clamp(tool[p].limit.n))
      /\ tool[p].limit.kind = "absent"
           => (tool[p].delegated /\ call[p].limitArg = ToolDefaultLimit)

\* C14: 'list articles' validates its limit and does not clamp it: a limit
\* within 1..100 reaches the paginator unchanged, no limit reaches it as 20,
\* and any other limit is rejected with an error result without a call of
\* the paginator.
C14_LimitValidatedNotClamped ==
  \A p \in Procs :
    tool[p].name = "matter_list_articles" =>
      LET raw == tool[p].limit IN
      /\ InRange(raw)
           => (tool[p].delegated /\ call[p].limitArg = raw.n /\ call[p].limit = raw.n)
      /\ raw.kind = "absent"
           => /\ tool[p].delegated
              /\ call[p].limitArg = ToolDefaultLimit
              /\ call[p].limit = ToolDefaultLimit
      /\ (~InRange(raw) /\ raw.kind # "absent")
           => /\ ~tool[p].delegated
              /\ call[p].pc = "idle"
              /\ req[p] = NoReq
              /\ tool[p].result.isError

\* C14 witness: the limit 101 is rejected, and the paginator is not called.
C14_Witness ==
  \E p \in Procs :
    /\ ToolDone(p, "matter_list_articles")
    /\ tool[p].limit = [kind |-> "number", n |-> LimitCap + 1]
    /\ ~tool[p].delegated
    /\ tool[p].result.isError

\* The invocation of process p has failed: its arguments were rejected, the
\* tool is unknown, or the client operation threw.
ToolFailed(p) == ~tool[p].delegated \/ call[p].outcome = "threw"

\* C15: every tool invocation ends with a result and no exception leaves
\* the handler; a failed invocation (validation error, failure of a request,
\* authentication failure, body that does not parse, unknown tool) ends with
\* a result flagged as error, and so did the invocation served before.
C15_EveryInvocationEndsInResult ==
  \A p \in Procs :
    /\ ~tool[p].prev.escaped
    /\ tool[p].pc = "done"
         => /\ ~tool[p].result.escaped
            /\ tool[p].result.text # "none"
            /\ ToolFailed(p) => tool[p].result.isError

\* C15 witness: after an invocation that ended with an error result, the
\* server has served another one, whose client operation threw in turn.
C15_Witness ==
  \E p \in Procs :
    /\ tool[p].prev.isError
    /\ tool[p].pc = "done"
    /\ call[p].outcome = "threw"
    /\ tool[p].result.isError

\* A source of the request that carries both tokens.
PairInHeaders(h) == h.xAccess # "" /\ h.xRefresh # ""
PairInAuth(h) ==
  /\ h.auth.a # "" /\ h.auth.r # ""
  /\ h.auth.scheme = (IF h.version = 2 THEN "Bearer" ELSE "Basic")

\* Process p has no tool handler, no client operation and no request.
NothingRuns(p) == call[p].pc = "off" /\ req[p] = NoReq /\ tool[p] = NoTool

\* C16: a request from which no pair of access and refresh token can be
\* resolved is answered 401, no server or client is created for it and no
\* tool handler, client operation or provider request runs; a server is
\* created only with both tokens, taken from one source.
C16_NoPairNoService ==
  \A p \in Procs :
    LET h == http[p] IN
    /\ (h.pc \notin {"none", "listening"} /\ h.method # "OPTIONS"
          /\ ~PairInHeaders(h) /\ ~PairInAuth(h))
         => (h.status = Unauthorized /\ ~h.created /\ NothingRuns(p)
               /\ cred[p] = NoClient)
    /\ ~h.created => NothingRuns(p)
    /\ h.created =>
         /\ h.tokens.accessToken # "" /\ h.tokens.refreshToken # ""
         /\ \/ (h.tokens.accessToken = h.xAccess
                  /\ h.tokens.refreshToken = h.xRefresh)
            \/ (h.tokens.accessToken = h.auth.a
                  /\ h.tokens.refreshToken = h.auth.r)

\* C16 witness: the Bearer payload carries only an access token and the
\* custom headers only a refresh token; the request is answered 401.
C16_Witness ==
  /\ http[1].pc = "answered"
  /\ http[1].version = 2
  /\ http[1].auth = [scheme |-> "Bearer", json |-> TRUE, a |-> "bA", r |-> ""]
  /\ http[1].xAccess = "" /\ http[1].xRefresh = "hR"
  /\ http[1].status = Unauthorized
  /\ NothingRuns(1)

\* C17: whatever printable strings the two tokens are, the token endpoint
\* decodes from the code it is sent the tokens the page made the code of.
C17_RoundTripIsIdentity ==
  oauth.pc # "idle" =>
    /\ ~oauth.threw
    /\ (oauth.pc = "answered" /\ oauth.method = "POST")
         => /\ oauth.status = Success
            /\ oauth.outAccess = oauth.access
            /\ oauth.outRefresh = oauth.refresh

\* An answer of the exchange endpoint with a complete pair.
CarriesPair(answer) ==
  answer.kind = "ok" /\ answer.access # <<>> /\ answer.refresh # <<>>

\* The state of the flow: Idle, Pending, Resolved or Expired.
QrState(q) ==
  CASE q.pc = "idle" -> "Idle"
    [] q.pc \in {"loop", "fetch", "sleep"} -> "Pending"
    [] q.pc = "redirected" -> "Resolved"
    [] q.pc = "timedout" -> "Expired"

\* C18: when the polls before it were all answered "not yet completed", the
\* poll that is answered with a complete pair resolves the flow: it is poll
\* K+1 after K such answers, the redirect is performed once, and it is the
\* last exchange call.
C18_ResolvedAtFirstPair ==
  /\ (qr.onlyPending /\ CarriesPair(qr.last))
       => /\ QrState(qr) = "Resolved"
          /\ qr.redirects = 1
          /\ qr.calls = qr.i + 1
  /\ QrState(qr) = "Resolved" => qr.redirects = 1

\* C19, the state part: a flow makes at most 120 exchange calls, and one
\* that has timed out has made exactly 120, shows the timeout and has not
\* redirected.
C19_AtMostLimitCalls ==
  /\ qr.calls <= PollLimit
  /\ qr.pc = "timedout"
       => (qr.calls = PollLimit /\ qr.shown = "timed out" /\ qr.redirects = 0)

\* C19: a flow whose polls never bring a complete pair ends by itself
\* timed out, after exactly 120 exchange calls, and makes no call after
\* that; no flow makes more than 120 calls.
C19_TimeoutAfterLimit ==
  /\ []C19_AtMostLimitCalls
  /\ [][qr.pc = "timedout" => qr' = qr]_vars
  /\ (QrState(qr) = "Pending") ~> (qr.pc = "timedout" \/ qr.shown = "connected")

\* C19 witness: the flow has timed out and no poll has brought a pair.
C19_Witness ==
  /\ qr.pc = "timedout"
  /\ qr.calls = PollLimit
  /\ qr.shown = "timed out"
  /\ ~qr.onlyPending

\* C20: the flow goes from Idle to Pending and from Pending to Resolved or
\* to Expired, and nowhere else; Resolved and Expired are left by no step;
\* Pending is left for Resolved only by the answer of a poll that carries
\* both tokens; any other answer leaves the flow Pending, changes neither
\* what is shown nor the redirects, and is followed by the next attempt.
C20_StateMachine ==
  [][LET a == QrState(qr)
         b == QrState(qr')
     IN /\ a # b => <<a, b>> \in {<<"Idle", "Pending">>, <<"Pending", "Resolved">>,
                                  <<"Pending", "Expired">>}
        /\ a \in {"Resolved", "Expired"} => qr' = qr
        /\ (a = "Pending" /\ b = "Resolved")
             => (qr.pc = "fetch" /\ CarriesPair(qr'.last))
        /\ (qr.pc = "fetch" /\ ~CarriesPair(qr'.last))
             => /\ qr'.pc = "sleep"
                /\ qr'.shown = qr.shown
                /\ qr'.redirects = qr.redirects
                /\ qr'.calls = qr.calls
        /\ qr.pc = "sleep" => (qr'.pc = "loop" /\ qr'.i = qr.i + 1)]_vars

\* C20 witness: the flow is Resolved after polls that failed or brought
\* one token only.
C20_Witness ==
  /\ QrState(qr) = "Resolved"
  /\ ~qr.onlyPending
  /\ qr.i > 0
  /\ qr.redirects = 1

\* C21: the trigger step fails whenever the provider's trigger call fails or
\* its answer lacks the session token or lacks the QR payload: the handler
\* answers 500, the flow stays Idle and no poll is made; a flow is beyond
\* Idle only after an ok answer with both, and the page was served.
C21_TriggerFailureServesNoPage ==
  /\ QrState(qr) # "Idle"
       => /\ qr.trigger.kind = "ok" /\ qr.trigger.session /\ qr.trigger.qrCode
          /\ qr.status = Success
  /\ (qr.trigger.kind # "none"
        /\ ~(qr.trigger.kind = "ok" /\ qr.trigger.session /\ qr.trigger.qrCode))
       => /\ QrState(qr) = "Idle"
          /\ qr.status = ServerError
          /\ qr.calls = 0

\* C21 witness: the trigger answered ok with a session token and without
\* the QR payload, and the handler answered 500.
C21_Witness ==
  /\ qr.trigger.kind = "ok" /\ qr.trigger.session /\ ~qr.trigger.qrCode
  /\ qr.status = ServerError
  /\ QrState(qr) = "Idle"

\* The values of the parameters called `name` in a query, as their receiver
\* reads them, and the parameters with other names than `code` and `state`.
ParamValues(query, name) ==
  LET named == SelectSeq(query, LAMBDA e : e.name = name)
  IN [i \in 1..Len(named) |-> ToStringUtf8(SearchParamsGet(named[i].value))]
OtherParams(query) == SelectSeq(query, LAMBDA e : e.name \notin {"code", "state"})

\* C23: the redirect of a completed flow goes to the redirect_uri the
\* handler was given, whose own parameters are kept; its query has the
\* authorization code as the one `code` parameter, and the `state` the
\* handler was given reads back unchanged from the one `state` parameter
\* (no such parameter when no state was given).
C23_RedirectCarriesCodeAndState ==
  qr.pc = "redirected"
    => /\ qr.redirect = "valid"
       /\ OtherParams(qr.target) = OtherParams(qr.given)
       /\ ParamValues(qr.target, "code")
            = <<AuthorizationCode(qr.last.access, qr.last.refresh).code>>
       /\ ParamValues(qr.target, "state")
            = (IF qr.state = <<>> THEN <<>> ELSE <<qr.state>>)

\* C23 witness: a flow is redirected whose state has characters the query
\* escapes and whose redirect_uri has a query of its own.
C23_Witness ==
  /\ qr.pc = "redirected"
  /\ qr.state = <<43, 38, 32>>
  /\ Len(qr.given) = 3
  /\ Len(qr.target) = 3

\* C22: for every authorization code that decodes to a pair, delivered in
\* a JSON body or form-encoded, the token endpoint answers 200 with
\* token_type "Bearer", the pair's refresh token and an access_token which,
\* presented as Bearer token to the MCP endpoint, resolves to the same
\* access token and the same refresh token.
C22_CombinedTokenRoundTrip ==
  /\ (oauth.pc \in {"answered", "resolved"} /\ oauth.method = "POST")
       => /\ oauth.status = Success
          /\ oauth.tokenType = "Bearer"
          /\ oauth.outAccess = oauth.access
          /\ oauth.outRefresh = oauth.refresh
  /\ oauth.pc = "resolved"
       => oauth.resolved = [found |-> TRUE, accessToken |-> oauth.access,
                            refreshToken |-> oauth.refresh]

\* C22 witness: a form-encoded code whose pair has a character above
\* U+00FF and a quotation mark was answered and its access_token resolved.
C22_Witness ==
  /\ oauth.pc = "resolved"
  /\ oauth.delivery = "form"
  /\ oauth.access = <<8364, 34>>
  /\ oauth.resolved.found

\* C24: every POST to the registration endpoint is answered 201 whatever
\* its body; two registrations never get the same client identifier, also
\* when their bodies are the same; and apart from the identifier the answer
\* to a request is the same whatever was registered before it.
C24_FreshClientIdNoRegistry ==
  LET a == reg.answers IN
  /\ \A i \in 1..Len(a) : a[i].method = "POST" => a[i].status = Created
  /\ \A i, j \in 1..Len(a) :
       (i < j /\ a[i].method = "POST" /\ a[j].method = "POST")
         => /\ a[i].client_id # a[j].client_id
            /\ a[i].body = a[j].body
                 => [a[i] EXCEPT !.client_id = 0] = [a[j] EXCEPT !.client_id = 0]

\* C24 witness: two registrations with the same body were answered, with
\* different identifiers.
C24_Witness ==
  \E i, j \in 1..Len(reg.answers) :
    /\ i < j
    /\ reg.answers[i].method = "POST" /\ reg.answers[j].method = "POST"
    /\ reg.answers[i].body = reg.answers[j].body
    /\ reg.answers[i].body.client_name = "A"
    /\ reg.answers[i].client_id # reg.answers[j].client_id

\* C26: a traversal (getArticles, getArticle) never requests a cursor it has
\* requested before in the same call: handed such a cursor, it ends (with
\* RequestFailed) instead of requesting it again.
C26_RepeatedCursorEndsTraversal ==
  \A p \in Procs :
    call[p].kind \in {"getArticles", "getArticle"} =>
      \A i, j \in 1..Len(call[p].fetched) :
        call[p].fetched[i] = call[p].fetched[j] => i = j

\* A traversal of process p.
Traversal(p) == call[p].kind \in {"getArticles", "getArticle"}

\* C27: within one traversal the pages are requested one after another in
\* cursor order: the first request goes to the first page, or to the start
\* cursor the caller gave; each later request goes to the cursor of the
\* page received just before it and is made in the step that receives that
\* page; while the traversal runs, its one request is the one for the page
\* requested last.
C27_PagesOneAfterAnother ==
  /\ [](\A p \in Procs :
          Traversal(p) =>
            LET f == call[p].fetched IN
            /\ Len(f) >= 1
            /\ f[1] = (IF call[p].kind = "getArticles" /\ call[p].startArg # NoCursor
                         THEN call[p].startArg ELSE QueueFeedUrl)
            /\ \A k \in 1..(Len(f) - 1) : f[k + 1] = feed[f[k]].next
            /\ req[p].url = f[Len(f)]
            /\ call[p].pc = "run"
                 => req[p].pc \in {"await1", "awaitRefresh", "refreshed", "await2"})
  /\ [][\A p \in Procs :
          (Traversal(p) /\ call'[p].fetched # call[p].fetched /\ call'[p].pc = "run")
            => /\ req[p].pc \in {"await1", "await2"}
               /\ call'[p].fetched = Append(call[p].fetched, feed[req[p].url].next)
               /\ req'[p].pc = "await1"
               /\ req'[p].url = feed[req[p].url].next]_vars

\* C27 witness: the second page of a traversal is in flight, requested
\* with the cursor of the first.
C27_Witness ==
  \E p \in Procs :
    /\ Traversal(p)
    /\ call[p].fetched = <<QueueFeedUrl, feed[QueueFeedUrl].next>>
    /\ req[p].pc = "await1"
    /\ call[p].pc = "run"

\* C28: every failure that reaches the caller of request() is an error of
\* the taxonomy, AuthExpired or RequestFailed.
C28_EveryFailureIsOfTheTaxonomy ==
  \A p \in Procs :
    call[p].outcome = "threw"
      => (AuthExpired(call[p].err) \/ RequestFailed(call[p].err))

\* C29: every request is sent with the access token the client holds at
\* the moment of sending; a second attempt is made only after a refresh
\* that succeeded and carries the access token that refresh returned, which
\* is not the one of the first attempt; and when the retry is answered ok
\* with a body that parses, the caller gets what that body holds.
C29_BearerIsCurrentAccessToken ==
  /\ [](\A p \in Procs :
          LET f == req[p] IN
          /\ Len(f.sent) = f.targetCalls
          /\ f.targetCalls >= 1 => f.hdr = f.sent[Len(f.sent)]
          /\ f.targetCalls = 2
               => /\ f.refresh = "ok"
                  /\ f.sent[1] = f.before.access
                  /\ f.sent[2] = f.refreshGot
                  /\ f.sent[2] # f.sent[1]
          /\ (f.targetCalls = 2 /\ Ok(f.retry) /\ f.retry.body = "json"
                /\ call[p].kind = "saveArticle")
               => (call[p].outcome = "returned" /\ call[p].result.id = f.got))
  /\ [][\A p \in Procs :
          (req'[p] # req[p] /\ req'[p].pc \in {"await1", "await2"})
            => /\ req'[p].hdr = cred[ClientOf(p)].access
               /\ req'[p].sent[Len(req'[p].sent)] = cred[ClientOf(p)].access]_vars

\* C29 witness: a save whose first attempt was answered 401 returned the
\* identifier of the retry, sent with the access token of the refresh.
C29_Witness ==
  \E p \in Procs :
    /\ Returned(p, "saveArticle")
    /\ req[p].sent = <<0, 1>>
    /\ req[p].first.status = Unauthorized
    /\ call[p].result.id = req[p].got

\* The places, among the pages of the feed in cursor order, of the pages
\* with an entry that getArticle's test accepts.
MatchingPages(articleId) ==
  {k \in 1..Len(PagesFrom(QueueFeedUrl)) :
     \E j \in 1..Len(feed[PagesFrom(QueueFeedUrl)[k]].feed) :
       Matches(feed[PagesFrom(QueueFeedUrl)[k]].feed[j], articleId)}

\* C30: getArticle requests no page after the first page with a matching
\* entry: the pages it has fetched are the pages up to that one, and all
\* pages of the feed when no page has a match.
C30_StopsAtFirstMatch ==
  \A p \in Procs :
    Returned(p, "getArticle") =>
      LET hits == MatchingPages(call[p].articleId)
          n == IF hits = {} THEN Len(PagesFrom(QueueFeedUrl))
               ELSE CHOOSE k \in hits : \A j \in hits : k <= j
      IN /\ Len(call[p].fetched) = n
         /\ call[p].fetched = SubSeq(PagesFrom(QueueFeedUrl), 1, n)

\* C30 witness: the first page and the second page both have a match, and
\* the second page was not requested.
C30_Witness ==
  \E p \in Procs :
    /\ Returned(p, "getArticle")
    /\ MatchingPages(call[p].articleId) = {1, 2}
    /\ call[p].fetched = <<QueueFeedUrl>>

\* C25: in the stateless deployment the client of a request is built from
\* the credentials of that request; its credentials change only by a
\* refresh made while serving that request, to the pair that refresh
\* returned; and whatever the requests running with it or before it have
\* done, every request it sends to the provider carries the access token,
\* and every refresh the refresh token, its own client holds.
C25_NoSharedTokenState ==
  /\ [](\A p \in Procs :
          /\ http[p].created = (cred[p] # NoClient)
          /\ call[p].pc # "off" => http[p].created)
  /\ [][\A p \in Procs :
          /\ cred'[p] # cred[p]
               => \/ /\ http[p].pc = "listening"
                     /\ http'[p].created
                     /\ cred'[p] = ClientPair(http'[p].tokens)
                  \/ /\ req[p].pc = "awaitRefresh"
                     /\ req'[p].refresh = "ok"
                     /\ cred'[p].access = req'[p].refreshGot
                     /\ cred'[p].refresh = req'[p].refreshGot
          /\ (req'[p] # req[p] /\ req'[p].pc \in {"await1", "await2"})
               => req'[p].hdr = cred[p].access
          /\ (req'[p] # req[p] /\ req'[p].pc = "awaitRefresh")
               => req'[p].refreshSent = cred[p].refresh]_vars

\* C25 witness: the first request has been answered after a refresh that
\* gave its client a new pair, and the second request, which came with
\* another pair, sends with the pair it came with.
C25_Witness ==
  /\ http[1].created /\ http[2].created
  /\ opsDone[1] = MaxCalls
  /\ cred[1].access >= 1
  /\ cred[2] = [access |-> -1, refresh |-> -1]
  /\ http[1].tokens.accessToken = "bA"
  /\ req[2].pc = "await1"
  /\ req[2].sent = <<-1>>

\* Whether a string is a numeral: digits only, at least one.
IsNumeral(str) == str # <<>> /\ \A i \in 1..Len(str) : IsDigit(str[i])

\* C31: the Article Locator returns an item only if one of the item's
\* identifiers, the entry id or the content id, as a string or as a number,
\* is equal to the requested identifier; never for a requested identifier
\* that merely starts with the digits of the item's content id.
C31_OnlyEqualIdentifiers ==
  \A p \in Procs :
    (Returned(p, "getArticleUpdates") /\ call[p].result.article.title # 0) =>
      LET e == call[p].result.article
          asked == call[p].articleId
      IN \/ e.id = asked
         \/ NumberToString(e.cid) = asked
         \/ (IsNumeral(asked) /\ DigitsValue(asked) = e.cid)

\* The pair a flow's redirect carries: what the token endpoint would decode
\* from the `code` parameter of its target.
CarriedPair(fl) ==
  LET codes == ParamValues(fl.target, "code")
      decoded == JsonParse(ToStringUtf8(BufferFromBase64(codes[1])))
  IN IF Len(codes) # 1 \/ ~decoded.ok THEN [access |-> <<>>, refresh |-> <<>>]
     ELSE [access |-> decoded.access_token, refresh |-> decoded.refresh_token]

\* C32: several QR flows in flight do not interfere: a flow polls the
\* exchange endpoint, and the proxy the provider, only with the session
\* token the flow's own trigger call returned; the code a flow redirects
\* carries the pair issued for that flow's session, which no other flow
\* has, and goes to that flow's redirect_uri with that flow's state.
C32_FlowsDoNotInterfere ==
  \A f \in Flows :
    LET fl == flows[f] IN
    /\ \A k \in 1..Len(fl.polled) : fl.polled[k] = fl.session
    /\ fl.pc = "fetch" => (fl.proxied = fl.session /\ fl.session # <<>>)
    /\ fl.last.kind = "ok" /\ fl.last.access # <<>>
         => fl.last.access = LoginPair(SessionOf(fl.session)).access
    /\ fl.pc = "redirected"
         => /\ SessionOf(fl.session) \in logins.scanned
            /\ CarriedPair(fl) = LoginPair(SessionOf(fl.session))
            /\ OtherParams(fl.target) = OtherParams(fl.given)
            /\ ParamValues(fl.target, "state") = <<fl.state>>
            /\ \A g \in Flows \ {f} :
                 /\ flows[g].session # fl.session
                 /\ CarriedPair(fl) # LoginPair(SessionOf(flows[g].session))

\* C32 witness: two flows whose polls alternated have both redirected,
\* with different states to different redirect_uri values, each after a
\* poll that came too early.
C32_Witness ==
  /\ \A f \in Flows : flows[f].pc = "redirected" /\ flows[f].i = 1
  /\ flows[1].state # flows[2].state
  /\ flows[1].given # flows[2].given
  /\ Len(logins.asked) = 4
  /\ \A k \in 1..3 : logins.asked[k] # logins.asked[k + 1]

\* The arguments of the invocation a handler frame serves fail validation,
\* or its tool is unknown.
InvalidInvocation(t) ==
  \/ t.name = "other"
  \/ (t.name = "matter_save_article" /\ t.url # "url")
  \/ (t.name = "matter_get_article"
        /\ (t.articleId.kind = "absent" \/ t.articleId.id = 0))
  \/ (t.name = "matter_list_articles" /\ t.limit.kind = "other")

\* C33: a tool invocation whose arguments fail validation (a url that is
\* not an absolute URL, an empty or missing article_id, a limit that is not
\* a number) or whose tool is unknown makes no provider request and starts
\* no client operation, leaves the client's credential pair as it was, and
\* ends with a result flagged as error.
C33_InvalidInvocationTouchesNothing ==
  /\ [](\A p \in Procs :
          (tool[p].pc # "none" /\ InvalidInvocation(tool[p]))
            => /\ tool[p].pc = "done"
               /\ ~tool[p].delegated
               /\ req[p] = NoReq
               /\ call[p] = NoCall("idle")
               /\ tool[p].result.isError /\ ~tool[p].result.escaped)
  /\ [][\A p \in Procs :
          (tool[p].pc = "none" /\ tool'[p].pc # "none"
             /\ InvalidInvocation(tool'[p]))
            => /\ cred' = cred /\ issued' = issued /\ notified' = notified
               /\ req' = req /\ call' = call]_vars

\* C33 witness: after an invocation whose request made the client refresh
\* its pair, an invocation with a url that is no URL has ended with an
\* error result, and the client holds the refreshed pair.
C33_Witness ==
  \E p \in Procs :
    /\ tool[p].pc = "done"
    /\ tool[p].name = "matter_save_article" /\ tool[p].url = "nourl"
    /\ tool[p].result.isError
    /\ opsDone[p] = 1
    /\ cred[ClientOf(p)] = [access |-> 1, refresh |-> 1]
    /\ req[p] = NoReq

\* C34: whenever refreshAccessToken reports failure to request(), which
\* then throws the authentication failure, the client holds the access and
\* refresh token it held before the refresh attempt, and the observer was
\* given no pair the client does not hold.
C34_RefreshFailureChangesNothing ==
  \A p \in Procs :
    (req[p].pc = "thrown" /\ req[p].refreshCalls = 1 /\ ~req[p].refreshed) =>
      /\ call[p].err = AuthenticationFailed
      /\ cred[ClientOf(p)] = req[p].before
      /\ \A i \in 1..Len(notified) : notified[i] = cred[ClientOf(p)]

\* C35: when operations overlap on one client and more than one of them is
\* answered 401, at most one refresh call is in flight at a time, no
\* refresh token is submitted to the refresh endpoint by more than one
\* call, and no operation fails with the authentication failure while the
\* client holds a pair that a concurrent refresh has obtained.
C35_SingleRefreshInFlight ==
  \A p, q \in Procs :
    /\ (p # q /\ ClientOf(p) = ClientOf(q))
         => /\ ~(req[p].pc = "awaitRefresh" /\ req[q].pc = "awaitRefresh")
            /\ (req[p].refreshCalls = 1 /\ req[q].refreshCalls = 1)
                 => req[p].refreshSent # req[q].refreshSent
    /\ (req[p].pc = "thrown" /\ call[p].err = AuthenticationFailed
          /\ ~req[p].observerThrew)
         => cred[ClientOf(p)] = req[p].before

\* The error a request() call has thrown, read off its frame.
RequestError(f) ==
  IF f.first.status = 0 THEN TypeError
  ELSE IF f.first.status = Unauthorized
    THEN IF ~f.refreshed THEN AuthenticationFailed
         ELSE IF f.retry.status = 0 THEN TypeError
         ELSE IF ~Ok(f.retry) THEN ErrorOfRetry(f.retry)
         ELSE SyntaxError
  ELSE IF ~Ok(f.first) THEN ErrorOfResponse(f.first)
  ELSE SyntaxError

\* C36: a traversal is all-or-nothing: when the request for a page fails,
\* getArticles and getArticle fail with the error of that request, return
\* none of the entries of the pages before it, and request no further page.
C36_TraversalAllOrNothing ==
  /\ [](\A p \in Procs :
          (Traversal(p) /\ req[p].pc = "thrown")
            => /\ call[p].pc = "done"
               /\ call[p].outcome = "threw"
               /\ call[p].err = RequestError(req[p])
               /\ call[p].result = NoResult
               /\ req[p].url = call[p].fetched[Len(call[p].fetched)])
  /\ [][\A p \in Procs :
          (Traversal(p) /\ req[p].pc = "thrown")
            => (call'[p] = NoCall("idle") \/ (call'[p] = call[p] /\ req'[p] = req[p]))]_vars

\* C36 witness: getArticles has the entries of its first page and fails
\* with the RequestFailed of the request for the second.
C36_Witness ==
  \E p \in Procs :
    /\ call[p].kind = "getArticles"
    /\ call[p].outcome = "threw"
    /\ RequestFailed(call[p].err)
    /\ Len(call[p].fetched) = 2
    /\ Len(call[p].allArticles) > 0
    /\ call[p].result = NoResult

\* C37: the token endpoint answers 200 only for a code that decodes to an
\* access token and a refresh token that are both not empty: without a
\* code it answers 400 invalid_request, for a code that does not decode or
\* lacks a token 400 invalid_grant, for a method other than POST and
\* OPTIONS 405; in none of these cases does the answer carry a token.
C37_NoTokenWithoutPair ==
  oauth.pc = "answered" =>
    LET pair == oauth.access # <<>> /\ oauth.refresh # <<>> IN
    /\ oauth.status = Success => (oauth.method = "POST" /\ pair)
    /\ oauth.method \notin {"POST", "OPTIONS"} => oauth.status = NotAllowed
    /\ (oauth.method = "POST" /\ oauth.code = <<>>)
         => (oauth.status = BadRequest /\ oauth.error = "invalid_request")
    /\ (oauth.method = "POST" /\ oauth.code # <<>> /\ ~pair)
         => (oauth.status = BadRequest /\ oauth.error = "invalid_grant")
    /\ oauth.status # Success
         => /\ oauth.bearer = <<>> /\ oauth.tokenType = "none"
            /\ oauth.outAccess = <<>> /\ oauth.outRefresh = <<>>

\* C37 witness: a code whose object has an access token and an empty
\* refresh token was answered 400 invalid_grant.
C37_Witness ==
  /\ oauth.pc = "answered" /\ oauth.method = "POST"
  /\ oauth.access = <<97>> /\ oauth.refresh = <<>>
  /\ oauth.code = Base64Encode(Utf8Encode(Stringify(<<97>>, <<>>)))
  /\ oauth.status = BadRequest /\ oauth.error = "invalid_grant"

\* C38: the token endpoint is a function of the presented code: however
\* often a code is presented, and whatever was presented before it or
\* between, the answer is the same, and the code of a pair is always
\* answered 200, never refused as used or expired.
C38_SameCodeSameAnswer ==
  LET a == oauth.answers IN
  /\ \A i, j \in 1..Len(a) : a[i].code = a[j].code => a[i].answer = a[j].answer
  /\ \A i \in 1..Len(a) :
       a[i].code = Base64Encode(Utf8Encode(Stringify(<<97>>, <<114>>)))
         => /\ a[i].answer.status = Success
            /\ a[i].answer.outAccess = <<97>> /\ a[i].answer.outRefresh = <<114>>

\* C38 witness: a code was answered 200, then another code, then the first
\* code again, delivered the other way, with 200 and the same body.
C38_Witness ==
  LET a == oauth.answers IN
  /\ Len(a) = 3
  /\ a[1].code = a[3].code /\ a[1].code # a[2].code
  /\ a[1].delivery # a[3].delivery
  /\ a[1].answer.status = Success /\ a[2].answer.status = Success
  /\ a[3].answer = a[1].answer

\* The entries of a sequence, as a set.
Range(seq) == {seq[i] : i \in 1..Len(seq)}

\* C39: the entries getArticles cut off on the page it fetched last, when
\* the limit was reached, are lost to continuation: they are not in what
\* it returns, and the call that goes on from the returned cursor does not
\* return them either; the two calls together return the feed in order
\* with a gap exactly at the entries cut off.
C39_CutOffItemsAreLost ==
  (Returned(1, "getArticles") /\ Returned(2, "getArticles")) =>
    LET all == ItemsAhead(1)
        first == call[1].result.articles
        second == call[2].result.articles
        cut == Len(ItemsOf(call[1].fetched)) - Len(first)
        lost == SubSeq(all, Len(first) + 1, Len(first) + cut)
    IN /\ call[2].startArg = call[1].result.nextUrl
       /\ Len(first) = call[1].limit
       /\ first = SubSeq(all, 1, Len(first))
       /\ second = SubSeq(all, Len(first) + cut + 1,
                          Len(first) + cut + Len(second))
       /\ (Len(second) = call[2].limit
             \/ Len(first) + cut + Len(second) = Len(all))
       /\ Range(lost) \cap (Range(first) \cup Range(second)) = {}
       /\ cut > 0 => Len(first \o second) < Len(all)

\* C39 witness: the first call returned one entry of a page of two, the
\* following call returned the entries of the next page, and the entry cut
\* off is in neither.
C39_Witness ==
  /\ Returned(1, "getArticles") /\ Returned(2, "getArticles")
  /\ call[1].limit = 1
  /\ Len(ItemsOf(call[1].fetched)) = 2
  /\ Len(call[2].result.articles) >= 1
  /\ call[2].result.nextUrl = NoCursor
  /\ Len(call[1].result.articles \o call[2].result.articles) < Len(ItemsAhead(1))

====
